---- MODULE Spec2Model ----
(***************************************************************************)
(* Model of the store fan-out pipeline of ting-data-etl:                   *)
(*   fan_out_by_storeid.py  (the partitioner: iter_csv_files,              *)
(*                           split_csv_file, main)                         *)
(*   verify_fanout.py       (the verifier: check_file_sets,                *)
(*                           check_store_no_values, main)                  *)
(*   aggregate_by_store.py  (the aggregator: run_aggregation and its       *)
(*                           helpers)                                      *)
(*                                                                         *)
(* Representation.                                                         *)
(*  - A string is a sequence of characters, each character a one-token     *)
(*    TLA+ string.  The CJK alias of STORE_ID_HEADERS and the non-ASCII    *)
(*    digit are written as ASCII tokens (ZH_STORE_NO, SUPERSCRIPT_TWO);    *)
(*    an alias is compared only as a whole cell, and it holds no digit,    *)
(*    no dot and no leading or trailing blank, so one token stands for it. *)
(*  - A CSV file is the sequence of rows csv.reader yields for it and      *)
(*    csv.writer.writerow appends one row to it; a row is a sequence of    *)
(*    cells.  A file has size 0 exactly when it holds no row, because      *)
(*    writerow always emits a line terminator.                             *)
(*  - A directory is a function from entry name to content; the output     *)
(*    tree maps each store directory to its files.                         *)
(*  - A file name is <<stem, extension>>.                                  *)
(***************************************************************************)
EXTENDS Integers, Sequences, FiniteSets

VARIABLES
    input_dir,    \* --input-dir: file name -> rows of the file
    output_dir,   \* --output-dir: store directory -> (file name -> rows)
    todo,         \* entries main's loop over iter_csv_files has yet to yield
    run,          \* number of partitioner runs started on this output tree
    pc,           \* "fanout": main is in its loop; "idle": no program runs
    verdict,      \* outcome of the last verify_fanout run on this tree
    config_key,          \* --config of aggregate_by_store.py
    AGGREGATE_INPUT_DIR, \* input/aggregate: source file -> rows of the file
    OUTPUT_DIR,          \* ./output as the aggregator sees it:
                         \*   store directory -> (file name -> table)
    raised,              \* "": run_aggregation has not run; "None": it has
                         \*   returned; else the exception it raised
    ting_test_mode,      \* --ting-test of aggregate_by_store.py
    test_output_dir,     \* ./output/ting-test (--output-dir): whether it
                         \*   exists, and its tree store directory -> files
    test_runs,           \* runs of aggregate_by_store.py --ting-test so far
    count_input_dir,     \* --input-dir of verify_store_file_count.py: path of
                         \*   a directory below it (<<>>: itself) -> number
                         \*   of files directly in the directory
    limit_file_count,    \* --limit-file-count
    count_verdict,       \* outcome of verify_store_file_count.py
    downloader           \* LookerDownloader.download: the locals of its loop
                         \*   and the fields of self it reads and writes

fanout_vars == <<input_dir, output_dir, todo, run, pc, verdict>>

aggregate_vars == <<config_key, AGGREGATE_INPUT_DIR, OUTPUT_DIR, raised,
                    ting_test_mode, test_output_dir, test_runs>>

count_vars == <<count_input_dir, limit_file_count, count_verdict>>

tool_vars == <<count_vars, downloader>>

vars == <<input_dir, output_dir, todo, run, pc, verdict,
          config_key, AGGREGATE_INPUT_DIR, OUTPUT_DIR, raised,
          ting_test_mode, test_output_dir, test_runs,
          count_input_dir, limit_file_count, count_verdict, downloader>>

\* verify_store_file_count.py has not run
NotCounted == [ran |-> FALSE, printed |-> {}, exit_status |-> 0]

\* verify_store_file_count.py is not part of the run
NoFileCount ==
    /\ count_input_dir = <<>>
    /\ limit_file_count = 0
    /\ count_verdict = NotCounted

\* looker_downloader.py is not part of the run
NoDownload == downloader = [pc |-> "idle"]

\* None of the stand-alone tools is part of the run
NoTools == NoFileCount /\ NoDownload

\* A directory that does not exist, and one that holds the tree
NoDirectory == [exists |-> FALSE, tree |-> <<>>]

Directory(tree) == [exists |-> TRUE, tree |-> tree]

\* aggregate_by_store.py runs without --ting-test
NoTingTest ==
    /\ ting_test_mode = FALSE
    /\ test_output_dir = NoDirectory
    /\ test_runs = 0

\* aggregate_by_store.py is not part of the run
NoAggregation ==
    /\ config_key = ""
    /\ AGGREGATE_INPUT_DIR = <<>>
    /\ OUTPUT_DIR = <<>>
    /\ raised = ""
    /\ NoTingTest

---------------------------------------------------------------------------
(* Bounds of the model *)

MaxRows == 2      \* data rows in the input directory, over all its files
MaxRuns == 2      \* partitioner runs over the same output tree
MaxSourceRows == 2   \* data rows of a source file of input/aggregate
MaxShops == 6        \* shops of one store in the first-purchase file

---------------------------------------------------------------------------
(* Characters and strings *)

AsciiDigits == {"0", "1", "2"}

\* str.isdigit() also accepts digits outside ASCII, e.g. U+00B2.
UnicodeDigits == {"SUPERSCRIPT_TWO"}

Whitespace == {" "}

\* The four aliases of STORE_ID_HEADERS, in priority order.
ZH_STORE_NO == <<"ZH_STORE_NO">>

SHOP_ID_LOWER == <<"shopId">>

SHOP_ZH_STORE_NO == <<"Shop ZH_STORE_NO">>

SHOP_ID_UPPER == <<"ShopId">>

STORE_ID_HEADERS == <<ZH_STORE_NO, SHOP_ID_LOWER, SHOP_ZH_STORE_NO, SHOP_ID_UPPER>>

RECURSIVE LStrip(_)
LStrip(s) ==
    IF s = <<>> THEN <<>>
    ELSE IF Head(s) \in Whitespace THEN LStrip(Tail(s))
    ELSE s

RECURSIVE RStrip(_)
RStrip(s) ==
    IF s = <<>> THEN <<>>
    ELSE IF s[Len(s)] \in Whitespace THEN RStrip(SubSeq(s, 1, Len(s) - 1))
    ELSE s

\* str.strip()
Strip(s) == RStrip(LStrip(s))

\* str.endswith(suffix)
EndsWith(s, suffix) ==
    /\ Len(s) >= Len(suffix)
    /\ SubSeq(s, Len(s) - Len(suffix) + 1, Len(s)) = suffix

\* str.split(sep)[0]: the part before the first occurrence of sep
RECURSIVE SplitFirst(_, _)
SplitFirst(s, sep) ==
    IF s = <<>> THEN <<>>
    ELSE IF Head(s) = sep THEN <<>>
    ELSE <<Head(s)>> \o SplitFirst(Tail(s), sep)

\* str.isdigit(): at least one character, and every character a digit
IsDigit(s) ==
    /\ Len(s) > 0
    /\ \A i \in 1..Len(s) : s[i] \in AsciiDigits \cup UnicodeDigits

\* x in list
InSeq(x, seq) == \E i \in 1..Len(seq) : seq[i] = x

\* list.index(x), for x in list
IndexOf(x, seq) == CHOOSE i \in 1..Len(seq) : seq[i] = x /\ \A j \in 1..(i - 1) : seq[j] # x

---------------------------------------------------------------------------
(* File names *)

Lower == [e \in {"csv", "CSV", "txt"} |-> IF e = "CSV" THEN "csv" ELSE e]

\* name.lower().endswith(".csv")
IsCsvName(name) == Lower[name[2]] = "csv"

\* entries of a directory that iter_csv_files yields
iter_csv_files(dir) == {n \in DOMAIN dir : IsCsvName(n)}

---------------------------------------------------------------------------
(* fan_out_by_storeid.py: the header locator (split_csv_file, first loop) *)

\* Aliases of STORE_ID_HEADERS that occur in the row, as priority positions.
AliasesIn(row) == {k \in 1..Len(STORE_ID_HEADERS) : InSeq(STORE_ID_HEADERS[k], row)}

LeftmostAliasColumn(row) ==
    IF AliasesIn(row) = {} THEN 0
    ELSE CHOOSE c \in 1..Len(row) :
            /\ InSeq(row[c], STORE_ID_HEADERS)
            /\ \A d \in 1..(c - 1) : ~InSeq(row[d], STORE_ID_HEADERS)

\* found_idx of one row: the column of the first alias, in priority order,
\* that the row contains; 0 stands for None.  Columns count from 1 here.
found_idx(row) ==
    IF AliasesIn(row) = {} THEN 0
    ELSE LET k == CHOOSE a \in AliasesIn(row) : \A b \in AliasesIn(row) : a <= b
         IN  IndexOf(STORE_ID_HEADERS[k], row)

\* Position of the first row with a found_idx; 0 when header stays None.
HeaderPos(rows) ==
    IF \E i \in 1..Len(rows) : found_idx(rows[i]) # 0
    THEN CHOOSE i \in 1..Len(rows) :
            /\ found_idx(rows[i]) # 0
            /\ \A j \in 1..(i - 1) : found_idx(rows[j]) = 0
    ELSE 0

prefix_rows(rows) == SubSeq(rows, 1, HeaderPos(rows) - 1)

header(rows) == rows[HeaderPos(rows)]

store_idx(rows) == found_idx(header(rows))

\* The rows the second loop of split_csv_file reads: those after the header.
DataRows(rows) == SubSeq(rows, HeaderPos(rows) + 1, Len(rows))

---------------------------------------------------------------------------
(* fan_out_by_storeid.py: the row partitioner (split_csv_file, second loop) *)

NormalizeIdentity(raw_store_id) == raw_store_id

\* lines 47-50: "40316.0" -> "40316"
NormalizeStoreId(raw_store_id) ==
    IF EndsWith(raw_store_id, <<".", "0">>)
    THEN SplitFirst(raw_store_id, ".")
    ELSE raw_store_id

\* lines 43-50: store_id of a row that is long enough
StoreIdOf(row, idx) == NormalizeStoreId(Strip(row[idx]))

DiscardNothing(store_id) == FALSE

\* lines 51-57: the three guards that skip a row
IsDiscarded(store_id) ==
    \/ store_id = <<>>
    \/ InSeq(store_id, STORE_ID_HEADERS)
    \/ ~IsDigit(store_id)

\* lines 41-57: the row is written somewhere
IsRouted(row, idx) ==
    /\ idx <= Len(row)
    /\ ~IsDiscarded(StoreIdOf(row, idx))

\* os.path.exists(out_path)
Exists(tree, store_id, name) ==
    /\ store_id \in DOMAIN tree
    /\ name \in DOMAIN tree[store_id]

AlwaysNeedsHeader(tree, store_id, name) == TRUE

\* line 61
NeedsHeader(tree, store_id, name) ==
    \/ ~Exists(tree, store_id, name)
    \/ Len(tree[store_id][name]) = 0

OpenTruncate(tree, store_id, name) == <<>>

\* line 62, open(out_path, "a"): what the file holds when writing starts
OpenAppend(tree, store_id, name) ==
    IF Exists(tree, store_id, name) THEN tree[store_id][name] ELSE <<>>

HeaderWithoutPreamble(prefix, hdr) == <<hdr>>

\* lines 65-67 and 80-82: the preamble rows, then the header row
HeaderBlock(prefix, hdr) == prefix \o <<hdr>>

\* A tree with the file store_id/name set to content: os.makedirs(store_dir,
\* exist_ok=True) creates the directory when it is absent.
WithFile(tree, store_id, name, content) ==
    LET old == IF store_id \in DOMAIN tree THEN tree[store_id] ELSE <<>>
        new == [n \in DOMAIN old \cup {name} |->
                    IF n = name THEN content ELSE old[n]]
    IN  [s \in DOMAIN tree \cup {store_id} |->
            IF s = store_id THEN new ELSE tree[s]]

\* The row written with its cells trimmed
WriteRowStripped(tree, store_id, name, prefix, hdr, row) ==
    WithFile(tree, store_id, name,
             OpenAppend(tree, store_id, name)
             \o (IF NeedsHeader(tree, store_id, name)
                 THEN HeaderBlock(prefix, hdr) ELSE <<>>)
             \o <<[i \in 1..Len(row) |-> Strip(row[i])]>>)

\* lines 58-68: one accepted row
WriteRow(tree, store_id, name, prefix, hdr, row) ==
    WithFile(tree, store_id, name,
             OpenAppend(tree, store_id, name)
             \o (IF NeedsHeader(tree, store_id, name)
                 THEN HeaderBlock(prefix, hdr) ELSE <<>>)
             \o <<row>>)

RECURSIVE PartitionRowsUntilShortRow(_, _, _, _, _, _)
PartitionRowsUntilShortRow(st, rows, name, prefix, hdr, idx) ==
    IF rows = <<>> \/ idx > Len(Head(rows)) THEN st
    ELSE LET row == Head(rows)
             next == IF IsRouted(row, idx)
                     THEN [tree |-> WriteRow(st.tree, StoreIdOf(row, idx),
                                             name, prefix, hdr, row),
                           written_store_ids |->
                               st.written_store_ids \cup {StoreIdOf(row, idx)}]
                     ELSE st
         IN  PartitionRowsUntilShortRow(next, Tail(rows), name, prefix, hdr, idx)

\* lines 40-69: the loop over the rows after the header.  st is
\* [tree, written_store_ids]; rows are taken in file order.
RECURSIVE PartitionRows(_, _, _, _, _, _)
PartitionRows(st, rows, name, prefix, hdr, idx) ==
    IF rows = <<>> THEN st
    ELSE LET row == Head(rows)
             next == IF IsRouted(row, idx)
                     THEN [tree |-> WriteRow(st.tree, StoreIdOf(row, idx),
                                             name, prefix, hdr, row),
                           written_store_ids |->
                               st.written_store_ids \cup {StoreIdOf(row, idx)}]
                     ELSE st
         IN  PartitionRows(next, Tail(rows), name, prefix, hdr, idx)

NoFill(tree, written_store_ids, name, prefix, hdr) == tree

\* The header block written to every directory without a row of this
\* input file, over whatever the file held
FillOverwriting(tree, written_store_ids, name, prefix, hdr) ==
    LET Missing == {s \in DOMAIN tree : s \notin written_store_ids}
    IN  [s \in DOMAIN tree |->
            IF s \in Missing
            THEN [n \in DOMAIN tree[s] \cup {name} |->
                     IF n = name THEN HeaderBlock(prefix, hdr) ELSE tree[s][n]]
            ELSE tree[s]]

\* lines 72-82: header-only files for the directories of the output tree
\* that got no row of this input file
HeaderOnlyFill(tree, written_store_ids, name, prefix, hdr) ==
    [s \in DOMAIN tree |->
        IF s \notin written_store_ids /\ ~Exists(tree, s, name)
        THEN [n \in DOMAIN tree[s] \cup {name} |->
                 IF n = name THEN HeaderBlock(prefix, hdr) ELSE tree[s][n]]
        ELSE tree[s]]

SplitFillingWithoutHeader(rows, name, tree) ==
    LET pos == HeaderPos(rows)
    IN  IF pos = 0 THEN HeaderOnlyFill(tree, {}, name, rows, <<>>)
        ELSE LET prefix == SubSeq(rows, 1, pos - 1)
                 hdr == rows[pos]
                 idx == found_idx(hdr)
                 st == PartitionRows([tree |-> tree, written_store_ids |-> {}],
                                     SubSeq(rows, pos + 1, Len(rows)),
                                     name, prefix, hdr, idx)
             IN  HeaderOnlyFill(st.tree, st.written_store_ids, name, prefix, hdr)

\* split_csv_file(path, name, output_dir, encoding): the output tree it leaves
split_csv_file(rows, name, tree) ==
    LET pos == HeaderPos(rows)
    IN  IF pos = 0 THEN tree
        ELSE LET prefix == SubSeq(rows, 1, pos - 1)
                 hdr == rows[pos]
                 idx == found_idx(hdr)
                 st == PartitionRows([tree |-> tree, written_store_ids |-> {}],
                                     SubSeq(rows, pos + 1, Len(rows)),
                                     name, prefix, hdr, idx)
             IN  HeaderOnlyFill(st.tree, st.written_store_ids, name, prefix, hdr)

---------------------------------------------------------------------------
(* verify_fanout.py *)

list_input_files(dir) == {n \in DOMAIN dir : IsCsvName(n)}

list_store_dirs(tree) == DOMAIN tree

list_store_files(store_files) == {n \in DOMAIN store_files : IsCsvName(n)}

\* check_file_sets: the stores with a non-empty missing set, with their sets
missing_by_store(input_files, tree) ==
    LET bad == {s \in list_store_dirs(tree) :
                    input_files \ list_store_files(tree[s]) # {}}
    IN  [s \in bad |-> input_files \ list_store_files(tree[s])]

\* check_file_sets: the stores with a non-empty extra set, with their sets
extra_by_store(input_files, tree) ==
    LET bad == {s \in list_store_dirs(tree) :
                    list_store_files(tree[s]) \ input_files # {}}
    IN  [s \in bad |-> list_store_files(tree[s]) \ input_files]

\* lines 73-78: the verifier looks for the first alias only
VerifierHeaderPos(rows) ==
    IF \E i \in 1..Len(rows) : InSeq(ZH_STORE_NO, rows[i])
    THEN CHOOSE i \in 1..Len(rows) :
            /\ InSeq(ZH_STORE_NO, rows[i])
            /\ \A j \in 1..(i - 1) : ~InSeq(ZH_STORE_NO, rows[j])
    ELSE 0

\* lines 90-93
ActualValue(row, idx) == IF idx > Len(row) THEN <<>> ELSE row[idx]

\* lines 80-97: the violations one file adds to total_violations
FileViolations(rows, store) ==
    IF VerifierHeaderPos(rows) = 0 THEN 1
    ELSE LET pos == VerifierHeaderPos(rows)
             idx == IndexOf(ZH_STORE_NO, rows[pos])
         IN  Cardinality({i \in (pos + 1)..Len(rows) :
                            Strip(ActualValue(rows[i], idx)) # store})

RECURSIVE SumOver(_, _)
SumOver(f, keys) ==
    IF keys = {} THEN 0
    ELSE LET k == CHOOSE x \in keys : TRUE
         IN  f[k] + SumOver(f, keys \ {k})

\* check_store_no_values: total_violations over the whole tree
total_violations(tree) ==
    LET per_store == [s \in list_store_dirs(tree) |->
            SumOver([n \in list_store_files(tree[s]) |->
                        FileViolations(tree[s][n], s)],
                    list_store_files(tree[s]))]
    IN  SumOver(per_store, list_store_dirs(tree))

NotVerified ==
    [ran |-> FALSE, missing |-> <<>>, extra |-> <<>>, violations |-> 0,
     exit_status |-> 0]

VerifyIgnoringExtra(dir, tree) ==
    LET missing == missing_by_store(list_input_files(dir), tree)
        extra == extra_by_store(list_input_files(dir), tree)
        total == total_violations(tree)
    IN  [ran |-> TRUE, missing |-> missing, extra |-> extra,
         violations |-> total,
         exit_status |-> IF DOMAIN missing # {} \/ total # 0 THEN 1 ELSE 0]

\* main of verify_fanout.py: both reports, then the exit status (line 187)
verify_fanout(dir, tree) ==
    LET missing == missing_by_store(list_input_files(dir), tree)
        extra == extra_by_store(list_input_files(dir), tree)
        total == total_violations(tree)
    IN  [ran |-> TRUE, missing |-> missing, extra |-> extra,
         violations |-> total,
         exit_status |-> IF DOMAIN missing # {} \/ DOMAIN extra # {} \/ total # 0
                         THEN 1 ELSE 0]

---------------------------------------------------------------------------
(* Input files *)

A_CSV == <<"a", "csv">>

B_CSV == <<"b", "CSV">>

NOTES_TXT == <<"notes", "txt">>

TITLE == <<"t", "i", "t", "l", "e">>

VALUE == <<"v">>

\* Rows that follow the header.  Column 1, 2 or 3 is the store column,
\* depending on the header of the file; the last row is too short for a
\* store column 3.
RowPool ==
    { << <<"1">>, <<"2", ".", "0">>, <<" ">> >>,
      << <<"2">>, <<" ", "1", " ">>, <<"1", ".", "0">> >>,
      << <<"1", ".", "0">>, <<"x">>, <<>> >>,
      << <<"SUPERSCRIPT_TWO">>, ZH_STORE_NO >> }

\* Preamble and header of an input file: the store column is column 1,
\* column 2, and (by alias priority) column 3.
HeadPool ==
    { << <<ZH_STORE_NO, VALUE, VALUE>> >>,
      << <<TITLE>>, <<>>, <<VALUE, SHOP_ID_LOWER, VALUE>> >>,
      << <<TITLE, VALUE>>, <<SHOP_ID_UPPER, VALUE, ZH_STORE_NO>> >> }

RECURSIVE SeqsOfLen(_, _)
SeqsOfLen(S, n) ==
    IF n = 0 THEN {<<>>}
    ELSE {Append(q, x) : q \in SeqsOfLen(S, n - 1), x \in S}

\* A file without any alias: a title row, then a row.
HeaderlessFile == << <<TITLE>>, << <<"1">>, VALUE >> >>

\* The input files with n rows after the header; the file without a header
\* has none.
InputFiles(n) ==
    {h \o d : h \in HeadPool, d \in SeqsOfLen(RowPool, n)}
    \cup (IF n = 0 THEN {HeaderlessFile} ELSE {})

\* A file that is no CSV by its name; iter_csv_files never yields it.
NotesFile == << <<ZH_STORE_NO>>, << <<"1">> >> >>

InputDir(a, b) ==
    [n \in {A_CSV, B_CSV, NOTES_TXT} |->
        IF n = A_CSV THEN a ELSE IF n = B_CSV THEN b ELSE NotesFile]

\* The input directories: a.csv, b.CSV and notes.txt, the two CSV files
\* with at most MaxRows rows after their headers between them.
InputDirs ==
    UNION { UNION { {InputDir(a, b) : a \in InputFiles(ka), b \in InputFiles(kb)} :
                    kb \in 0..(MaxRows - ka) } :
            ka \in 0..MaxRows }

---------------------------------------------------------------------------
(* The programs *)

Init ==
    /\ input_dir \in InputDirs
    /\ output_dir = <<>>
    /\ todo = iter_csv_files(input_dir)
    /\ run = 1
    /\ pc = "fanout"
    /\ verdict = NotVerified
    /\ NoAggregation
    /\ NoTools

\* fan_out_by_storeid.main, one iteration of its loop: os.scandir yields the
\* entries in no particular order.
SplitNext ==
    /\ pc = "fanout"
    /\ \E name \in todo :
        /\ output_dir' = split_csv_file(input_dir[name], name, output_dir)
        /\ todo' = todo \ {name}
        /\ pc' = IF todo \ {name} = {} THEN "idle" ELSE "fanout"
    /\ UNCHANGED <<input_dir, run, verdict>>
    /\ UNCHANGED aggregate_vars
    /\ UNCHANGED tool_vars

\* fan_out_by_storeid.main started again on the same directories
MainAgain ==
    /\ pc = "idle"
    /\ run < MaxRuns
    /\ run' = run + 1
    /\ todo' = iter_csv_files(input_dir)
    /\ pc' = IF iter_csv_files(input_dir) = {} THEN "idle" ELSE "fanout"
    /\ verdict' = NotVerified
    /\ UNCHANGED <<input_dir, output_dir>>
    /\ UNCHANGED aggregate_vars
    /\ UNCHANGED tool_vars

\* verify_fanout.main on the same directories
VerifyFanout ==
    /\ pc = "idle"
    /\ ~verdict.ran
    /\ verdict' = verify_fanout(input_dir, output_dir)
    /\ UNCHANGED <<input_dir, output_dir, todo, run, pc>>
    /\ UNCHANGED aggregate_vars
    /\ UNCHANGED tool_vars

Next == SplitNext \/ MainAgain \/ VerifyFanout

Spec == Init /\ [][Next]_vars

---------------------------------------------------------------------------
(* verify_fanout.py on directories of any origin *)

\* Files a store directory may hold: the rows carry store 1, store 2, or
\* the header is an alias the verifier does not search for.
StoreFilePool ==
    { << <<ZH_STORE_NO, VALUE>>, << <<"1">>, VALUE >> >>,
      << <<ZH_STORE_NO, VALUE>>, << <<" ", "2">>, VALUE >>, << <<"2">>, VALUE >> >>,
      << <<SHOP_ID_LOWER, VALUE>>, << <<"1">>, VALUE >> >> }

\* The functions from a subset of names to contents
FilesOver(names, contents) ==
    UNION {[ns -> contents] : ns \in SUBSET names}

\* Output trees with the store directories 1 and 2, or fewer
AnyTrees ==
    UNION {[ss -> FilesOver({A_CSV, B_CSV}, StoreFilePool)] :
              ss \in SUBSET {<<"1">>, <<"2">>}}

\* Input directories: notes.txt and any of a.csv, b.CSV
AnyInputDirs ==
    {[n \in ns \cup {NOTES_TXT} |-> NotesFile] : ns \in SUBSET {A_CSV, B_CSV}}

InitVerify ==
    /\ input_dir \in AnyInputDirs
    /\ output_dir \in AnyTrees
    /\ todo = {}
    /\ run = MaxRuns
    /\ pc = "idle"
    /\ verdict = NotVerified
    /\ NoAggregation
    /\ NoTools

SpecVerify == InitVerify /\ [][VerifyFanout]_vars

---------------------------------------------------------------------------
(* Vocabulary of the properties *)

CsvInputs == iter_csv_files(input_dir)

\* The input file has a row with an alias of STORE_ID_HEADERS.
HasHeader(name) == HeaderPos(input_dir[name]) # 0

AllRecognized == \A n \in CsvInputs : HasHeader(n)

\* split_csv_file has run on the input file, in this run or an earlier one.
Processed(name) == run > 1 \/ name \notin todo

\* A non-empty string of ASCII digits.
IsAsciiDigits(s) == Len(s) > 0 /\ \A i \in 1..Len(s) : s[i] \in AsciiDigits

\* Preamble rows and header row of the input file, as the file has them.
InputBlock(name) ==
    SubSeq(input_dir[name], 1, HeaderPos(input_dir[name]))

\* The pairs <<store directory, file name>> of the output tree.
OutputFiles ==
    {sn \in (DOMAIN output_dir) \X (DOMAIN input_dir) :
        sn[2] \in DOMAIN output_dir[sn[1]]}

\* The rows of an output file below the preamble and header of its input.
RowsBelowBlock(s, n) ==
    SubSeq(output_dir[s][n], Len(InputBlock(n)) + 1, Len(output_dir[s][n]))

\* The rows of the input file that the partitioner routes to store s, in
\* file order.
RowsFor(name, s) ==
    LET idx == store_idx(input_dir[name])
        Mine(row) == IsRouted(row, idx) /\ StoreIdOf(row, idx) = s
    IN  SelectSeq(DataRows(input_dir[name]), Mine)

\* The stores the input file has accepted rows for.
RoutedStores(name) ==
    LET idx == store_idx(input_dir[name])
        rows == DataRows(input_dir[name])
    IN  {StoreIdOf(rows[i], idx) :
            i \in {j \in 1..Len(rows) : IsRouted(rows[j], idx)}}

RECURSIVE Repeat(_, _)
Repeat(seq, k) == IF k = 0 THEN <<>> ELSE seq \o Repeat(seq, k - 1)

\* Number of places of a file where the rows of block occur in a row.
BlockCount(file, block) ==
    Cardinality({i \in 1..Len(file) :
        /\ i + Len(block) - 1 <= Len(file)
        /\ SubSeq(file, i, i + Len(block) - 1) = block})

---------------------------------------------------------------------------
(* Properties of the partitioner and the verifier *)

\* C1: after one partitioner run into an empty output tree over input files
\* that all have a recognized header, verify_fanout reports no store with
\* missing files, none with extra files, no content violation, and exits 0.
C1_PartitionThenVerifyClean ==
    (pc = "idle" /\ run = 1 /\ verdict.ran /\ AllRecognized)
        => /\ DOMAIN verdict.missing = {}
           /\ DOMAIN verdict.extra = {}
           /\ verdict.violations = 0
           /\ verdict.exit_status = 0

\* C2: once the partitioner has processed every input file (all with a
\* recognized header) into an initially empty tree, every store directory
\* holds a file for every input file name.
C2_EveryStoreHasEveryInputFile ==
    (pc = "idle" /\ AllRecognized)
        => \A s \in DOMAIN output_dir : \A n \in CsvInputs :
               n \in DOMAIN output_dir[s]

\* C3: every data row of output/S/F has, in the store-identifier column, a
\* value that equals S after trimming whitespace.
C3_RowsCarryDirectoryName ==
    \A sn \in OutputFiles :
        LET rows == RowsBelowBlock(sn[1], sn[2])
            idx == store_idx(input_dir[sn[2]])
        IN  \A i \in 1..Len(rows) :
                /\ idx <= Len(rows[i])
                /\ Strip(rows[i][idx]) = sn[1]

\* The digit string N of a store cell that reads N or N.0 within
\* whitespace; the empty string for any other cell.
PlainOrFloat(cell) ==
    LET raw == Strip(cell)
        cut == SubSeq(raw, 1, Len(raw) - 2)
    IN  IF IsAsciiDigits(raw) THEN raw
        ELSE IF EndsWith(raw, <<".", "0">>) /\ IsAsciiDigits(cut) THEN cut
        ELSE <<>>

\* C4: a row whose store cell reads N or N.0 (N a digit string, whitespace
\* around it allowed) is in the file of directory N, so two such rows of
\* one input file share the directory; no directory name ends in ".0".
C4_FloatAndPlainShareDirectory ==
    /\ \A n \in CsvInputs : (Processed(n) /\ HasHeader(n)) =>
          LET rows == DataRows(input_dir[n])
              idx == store_idx(input_dir[n])
          IN  \A i \in 1..Len(rows) :
                  (idx <= Len(rows[i]) /\ PlainOrFloat(rows[i][idx]) # <<>>)
                      => /\ Exists(output_dir, PlainOrFloat(rows[i][idx]), n)
                         /\ InSeq(rows[i],
                                  output_dir[PlainOrFloat(rows[i][idx])][n])
    /\ \A s \in DOMAIN output_dir : ~EndsWith(s, <<".", "0">>)

\* Reached: one processed input file has a row reading N.0 and a row
\* reading N, and both rows are in the file of directory N.
C4_Witness ==
    \E n \in CsvInputs :
        /\ Processed(n) /\ HasHeader(n)
        /\ LET rows == DataRows(input_dir[n])
               idx == store_idx(input_dir[n])
           IN  \E i, j \in 1..Len(rows) :
                   /\ idx <= Len(rows[i]) /\ idx <= Len(rows[j])
                   /\ IsAsciiDigits(Strip(rows[i][idx]))
                   /\ Strip(rows[j][idx]) = Strip(rows[i][idx]) \o <<".", "0">>
                   /\ Exists(output_dir, Strip(rows[i][idx]), n)
                   /\ InSeq(rows[i], output_dir[Strip(rows[i][idx])][n])
                   /\ InSeq(rows[j], output_dir[Strip(rows[i][idx])][n])

\* C5: every per-store output file begins with the preamble rows of its
\* input file, in their order, then the header row; the rows below are
\* data rows of that input file.
C5_FilesBeginWithPreambleAndHeader ==
    \A sn \in OutputFiles :
        LET file == output_dir[sn[1]][sn[2]]
            block == InputBlock(sn[2])
            below == RowsBelowBlock(sn[1], sn[2])
        IN  /\ Len(file) >= Len(block)
            /\ SubSeq(file, 1, Len(block)) = block
            /\ \A i \in 1..Len(below) :
                   InSeq(below[i], DataRows(input_dir[sn[2]]))

\* Reached: for an input file with two preamble rows, one store has a file
\* made by a data row and another store a file made by the header-only fill.
C5_Witness ==
    \E n \in CsvInputs :
        /\ HasHeader(n)
        /\ Len(prefix_rows(input_dir[n])) = 2
        /\ \E s, t \in DOMAIN output_dir :
               /\ Exists(output_dir, s, n) /\ Exists(output_dir, t, n)
               /\ Len(output_dir[s][n]) > Len(InputBlock(n))
               /\ Len(output_dir[t][n]) = Len(InputBlock(n))

\* C6: when split_csv_file runs on an input file with a recognized header
\* whose accepted rows all belong to one store A, and store directories A
\* and B exist, then afterwards B has the file of that input, and the file
\* holds the preamble and header and no data row.
C6_HeaderOnlyFillForStoreWithoutRows ==
    [][\A n \in CsvInputs :
          (/\ pc = "fanout"
           /\ n \in todo
           /\ todo' = todo \ {n}
           /\ HasHeader(n))
          => \A A, B \in DOMAIN output_dir :
                (A # B /\ RoutedStores(n) = {A})
                => /\ Exists(output_dir', B, n)
                   /\ Len(output_dir'[B][n]) > 0
                   /\ output_dir'[B][n] = InputBlock(n)]_vars

\* Reached, in the first run: stores A and B both have a file of an input
\* whose accepted rows all belong to A; A's file has data rows, B's file is
\* the header-only one.  B has no row of that input, so its directory was
\* there before the input was processed.
C6_Witness ==
    /\ run = 1
    /\ \E n \in CsvInputs :
           /\ Processed(n) /\ HasHeader(n)
           /\ \E A, B \in DOMAIN output_dir :
                  /\ A # B
                  /\ RoutedStores(n) = {A}
                  /\ Exists(output_dir, A, n) /\ Exists(output_dir, B, n)
                  /\ Len(output_dir[A][n]) > Len(InputBlock(n))
                  /\ output_dir[B][n] = InputBlock(n)

\* C7: in every per-store output file the preamble and header occur once,
\* at the top, whatever the number of rows routed to the store and the
\* number of partitioner runs.
C7_HeaderBlockOnceAtTop ==
    \A sn \in OutputFiles :
        LET file == output_dir[sn[1]][sn[2]]
            block == InputBlock(sn[2])
        IN  /\ BlockCount(file, block) = 1
            /\ SubSeq(file, 1, Len(block)) = block

\* Reached: after a second run, a file with at least two rows of one run,
\* hence at least four data rows below a single header.
C7_Witness ==
    /\ run = 2
    /\ pc = "idle"
    /\ \E sn \in OutputFiles :
           /\ Len(RowsFor(sn[2], sn[1])) >= 2
           /\ Len(RowsBelowBlock(sn[1], sn[2])) >= 4

\* C8: after the k-th run over the same input directory into the same
\* output tree, every per-store file holds, below its preamble and header,
\* the rows of its input for that store k times over: twice after the
\* second run.  Nothing is deduplicated or truncated.
C8_RerunAppendsRowsAgain ==
    pc = "idle" =>
        \A sn \in OutputFiles :
            output_dir[sn[1]][sn[2]]
                = InputBlock(sn[2]) \o Repeat(RowsFor(sn[2], sn[1]), run)

\* Reached: the second run is over and a file holds its rows twice.
C8_Witness ==
    /\ run = 2
    /\ pc = "idle"
    /\ \E sn \in OutputFiles :
           /\ RowsFor(sn[2], sn[1]) # <<>>
           /\ RowsBelowBlock(sn[1], sn[2])
                  = RowsFor(sn[2], sn[1]) \o RowsFor(sn[2], sn[1])

\* C9: a row whose store cell is empty or whitespace-only is written to no
\* file, and no directory with an empty (or blank) name exists.
C9_BlankIdentifierDiscarded ==
    /\ \A s \in DOMAIN output_dir : Strip(s) # <<>>
    /\ \A sn \in OutputFiles :
           LET rows == RowsBelowBlock(sn[1], sn[2])
               idx == store_idx(input_dir[sn[2]])
           IN  \A i \in 1..Len(rows) :
                   /\ idx <= Len(rows[i])
                   /\ Strip(rows[i][idx]) # <<>>

\* Reached: a processed input file holds a row whose store cell is empty
\* and a row whose store cell is whitespace only.
C9_Witness ==
    \E n \in CsvInputs :
        /\ Processed(n) /\ HasHeader(n)
        /\ LET rows == DataRows(input_dir[n])
               idx == store_idx(input_dir[n])
           IN  \E i, j \in 1..Len(rows) :
                   /\ idx <= Len(rows[i]) /\ idx <= Len(rows[j])
                   /\ rows[i][idx] = <<>>
                   /\ rows[j][idx] # <<>>
                   /\ Strip(rows[j][idx]) = <<>>

\* C10: every directory of the output tree is named by a non-empty string
\* of ASCII digits, never by an alias of STORE_ID_HEADERS.
C10_DirectoriesNamedByAsciiDigits ==
    \A s \in DOMAIN output_dir :
        /\ IsAsciiDigits(s)
        /\ ~InSeq(s, STORE_ID_HEADERS)

\* The first row of the file that has an alias in some column; 0 if none.
FirstAliasRow(rows) ==
    LET has == {i \in 1..Len(rows) :
                    \E c \in 1..Len(rows[i]) : InSeq(rows[i][c], STORE_ID_HEADERS)}
    IN  IF has = {} THEN 0 ELSE CHOOSE i \in has : \A j \in has : i <= j

\* The column of the row that holds the alias which comes first in
\* STORE_ID_HEADERS among the aliases the row holds.
PriorityColumn(row) ==
    LET k == CHOOSE a \in 1..Len(STORE_ID_HEADERS) :
                /\ \E c \in 1..Len(row) : row[c] = STORE_ID_HEADERS[a]
                /\ \A b \in 1..(a - 1) :
                        \A c \in 1..Len(row) : row[c] # STORE_ID_HEADERS[b]
    IN  CHOOSE c \in 1..Len(row) :
            /\ row[c] = STORE_ID_HEADERS[k]
            /\ \A d \in 1..(c - 1) : row[d] # STORE_ID_HEADERS[k]

\* The left-most column of the row that holds any alias.
LeftmostColumn(row) ==
    CHOOSE c \in 1..Len(row) :
        /\ InSeq(row[c], STORE_ID_HEADERS)
        /\ \A d \in 1..(c - 1) : ~InSeq(row[d], STORE_ID_HEADERS)

\* C11: the header row of an input file is its first row with an alias, the
\* rows before it are the preamble in order, and the store column is the
\* column of the alias that comes first in STORE_ID_HEADERS: every output
\* file of the input begins with the rows up to that header row, and every
\* row below them carries its directory name in that column.
C11_HeaderByFirstRowColumnByPriority ==
    \A sn \in OutputFiles :
        LET s == sn[1]
            n == sn[2]
            p == FirstAliasRow(input_dir[n])
            file == output_dir[s][n]
        IN  /\ p > 0
            /\ Len(file) >= p
            /\ SubSeq(file, 1, p) = SubSeq(input_dir[n], 1, p)
            /\ \A i \in (p + 1)..Len(file) :
                    LET col == PriorityColumn(input_dir[n][p])
                    IN  /\ col <= Len(file[i])
                        /\ StoreIdOf(file[i], col) = s

\* C11 witness: a file with a preamble whose header has its left-most alias
\* in another column than the alias of highest priority, and a row of it
\* written to a store directory.
C11_Witness ==
    \E sn \in OutputFiles :
        LET n == sn[2]
            p == FirstAliasRow(input_dir[n])
        IN  /\ p > 1
            /\ LeftmostColumn(input_dir[n][p]) # PriorityColumn(input_dir[n][p])
            /\ Len(output_dir[sn[1]][n]) > p

\* C12: a step of the batch that takes an input file without any alias
\* leaves the whole output tree as it was, and the batch goes on: the file
\* is done, and the files that remain are still to be split.
C12_NoHeaderNoChangeBatchContinues ==
    [][\A n \in todo :
          (todo' = todo \ {n} /\ FirstAliasRow(input_dir[n]) = 0)
              => /\ output_dir' = output_dir
                 /\ pc' = IF todo \ {n} = {} THEN "idle" ELSE "fanout"]_vars

\* C12 witness: the second run is over, the file without an alias was
\* taken while store directories of the other file existed, and no
\* directory has a file of its name.
C12_Witness ==
    /\ run = 2
    /\ pc = "idle"
    /\ output_dir # <<>>
    /\ \E n \in CsvInputs :
        /\ FirstAliasRow(input_dir[n]) = 0
        /\ \A s \in DOMAIN output_dir : n \notin DOMAIN output_dir[s]
        /\ \E m \in CsvInputs \ {n} :
                \E s \in DOMAIN output_dir : Len(output_dir[s][m]) > Len(InputBlock(m))

\* The rows of the input file after its first row with an alias.
RowsAfterHeader(name) ==
    SubSeq(input_dir[name], FirstAliasRow(input_dir[name]) + 1,
           Len(input_dir[name]))

\* The row reaches the column and its identifier passes the three guards.
Accepted(row, col) ==
    /\ col <= Len(row)
    /\ StoreIdOf(row, col) # <<>>
    /\ ~InSeq(StoreIdOf(row, col), STORE_ID_HEADERS)
    /\ IsDigit(StoreIdOf(row, col))

\* C13: a row too short to have the store column has no effect and does not
\* stop the loop: no output file holds such a row, every store directory is
\* the identifier of some accepted row that reaches the column, and every
\* such row of a processed file, also one after a short row, is in the file
\* of its store.
C13_ShortRowDiscardedWithoutEffect ==
    /\ \A sn \in OutputFiles :
            LET n == sn[2]
                p == FirstAliasRow(input_dir[n])
                col == PriorityColumn(input_dir[n][p])
                file == output_dir[sn[1]][n]
            IN  \A i \in (p + 1)..Len(file) : col <= Len(file[i])
    /\ \A s \in DOMAIN output_dir :
            \E n \in CsvInputs :
                /\ FirstAliasRow(input_dir[n]) > 0
                /\ \E j \in 1..Len(RowsAfterHeader(n)) :
                        LET col == PriorityColumn(
                                      input_dir[n][FirstAliasRow(input_dir[n])])
                        IN  /\ Accepted(RowsAfterHeader(n)[j], col)
                            /\ StoreIdOf(RowsAfterHeader(n)[j], col) = s
    /\ \A n \in CsvInputs :
            (Processed(n) /\ FirstAliasRow(input_dir[n]) > 0) =>
                \A j \in 1..Len(RowsAfterHeader(n)) :
                    LET col == PriorityColumn(
                                  input_dir[n][FirstAliasRow(input_dir[n])])
                        row == RowsAfterHeader(n)[j]
                    IN  Accepted(row, col) =>
                            /\ Exists(output_dir, StoreIdOf(row, col), n)
                            /\ InSeq(row, output_dir[StoreIdOf(row, col)][n])

\* C13 witness: a processed file with a short row followed by an accepted
\* row, and the accepted row is in the file of its store.
C13_Witness ==
    \E n \in CsvInputs :
        /\ Processed(n)
        /\ FirstAliasRow(input_dir[n]) > 0
        /\ LET col == PriorityColumn(input_dir[n][FirstAliasRow(input_dir[n])])
                rows == RowsAfterHeader(n)
           IN  \E j \in 1..Len(rows) :
                   /\ j > 1
                   /\ Len(rows[j - 1]) < col
                   /\ Accepted(rows[j], col)
                   /\ InSeq(rows[j], output_dir[StoreIdOf(rows[j], col)][n])

\* Some store directory lacks a CSV file of the input directory.
SomeMissing ==
    \E s \in DOMAIN output_dir :
        \E n \in DOMAIN input_dir : IsCsvName(n) /\ n \notin DOMAIN output_dir[s]

\* Some store directory has a CSV file the input directory has not.
SomeExtra ==
    \E s \in DOMAIN output_dir :
        \E n \in DOMAIN output_dir[s] : IsCsvName(n) /\ n \notin DOMAIN input_dir

\* Some CSV file of a store directory adds to the content violations.
SomeViolation ==
    \E s \in DOMAIN output_dir :
        \E n \in DOMAIN output_dir[s] :
            IsCsvName(n) /\ FileViolations(output_dir[s][n], s) > 0

\* C14: verify_fanout exits 1 exactly when some store has a missing file,
\* some store has an extra file, or there is a content violation, and 0
\* otherwise; its two reports cover every store directory.
C14_ExitStatusIffDiscrepancy ==
    verdict.ran =>
        /\ verdict.exit_status = IF SomeMissing \/ SomeExtra \/ SomeViolation
                                 THEN 1 ELSE 0
        /\ (DOMAIN verdict.missing # {}) = SomeMissing
        /\ (DOMAIN verdict.extra # {}) = SomeExtra
        /\ (verdict.violations > 0) = SomeViolation

\* C14 witness: the verifier has exited 1 on a tree whose only discrepancy
\* is an extra file.
C14_Witness ==
    /\ verdict.ran
    /\ verdict.exit_status = 1
    /\ SomeExtra
    /\ ~SomeMissing
    /\ ~SomeViolation

\* C15: for every CSV file of the output tree the verifier finds a header
\* row exactly when the header locator of the partitioner finds one, the
\* same row and the same store column, so that the synthetic violation of a
\* missing header is counted only for files without any alias.
C15_VerifierLocatesHeaderLikePartitioner ==
    \A sn \in OutputFiles :
        LET rows == output_dir[sn[1]][sn[2]]
        IN  /\ VerifierHeaderPos(rows) = HeaderPos(rows)
            /\ HeaderPos(rows) # 0 =>
                   IndexOf(ZH_STORE_NO, rows[HeaderPos(rows)])
                       = found_idx(rows[HeaderPos(rows)])

---------------------------------------------------------------------------
(* aggregate_by_store.py: the numbers of a pandas column *)

\* A float64 value as a fraction n/d with d > 0; d = 0 stands for NaN when
\* n = 0 and for +inf or -inf, by the sign of n, otherwise.
Float(n, d) == [n |-> n, d |-> d]

NaN == Float(0, 0)

IsNaN(x) == x.d = 0 /\ x.n = 0

IsInf(x) == x.d = 0 /\ x.n # 0

\* x == 0 of pandas; x != 0 is its negation, which NaN satisfies
IsZero(x) == x.d > 0 /\ x.n = 0

Sign(k) == IF k > 0 THEN 1 ELSE IF k < 0 THEN -1 ELSE 0

Abs(k) == IF k < 0 THEN -k ELSE k

\* a + b and a - b of two finite or NaN values
Plus(a, b) ==
    IF IsNaN(a) \/ IsNaN(b) THEN NaN
    ELSE Float(a.n * b.d + b.n * a.d, a.d * b.d)

Minus(a, b) ==
    IF IsNaN(a) \/ IsNaN(b) THEN NaN
    ELSE Float(a.n * b.d - b.n * a.d, a.d * b.d)

\* a / b of two finite or NaN values: x/0 is inf, 0/0 is NaN, nothing raises
Divide(a, b) ==
    IF IsNaN(a) \/ IsNaN(b) THEN NaN
    ELSE IF b.n = 0 THEN Float(Sign(a.n), 0)
    ELSE Float(a.n * b.d * Sign(b.n), a.d * Abs(b.n))

\* a < b of two finite values
Less(a, b) == a.n * b.d < b.n * a.d

\* a == b of two finite values
Equal(a, b) == a.n * b.d = b.n * a.d

Unmasked(x, cond) == x

\* Series.where(cond): the value where cond holds, NaN elsewhere
Where(x, cond) == IF cond THEN x ELSE NaN

\* Series.fillna(0)
fillna(x) == IF IsNaN(x) THEN Float(0, 1) ELSE x

Digits == <<"0", "1", "2", "3", "4", "5", "6", "7", "8", "9">>

DigitValue(c) == IndexOf(c, Digits) - 1

RECURSIVE DecimalValue(_)
DecimalValue(s) ==
    IF s = <<>> THEN 0
    ELSE DecimalValue(SubSeq(s, 1, Len(s) - 1)) * 10 + DigitValue(s[Len(s)])

\* str.replace(c, "") for each character c of removed
Remove(s, removed) ==
    LET Kept(c) == c \notin removed
    IN  SelectSeq(s, Kept)

\* _to_number of one cell: strip, drop the separators, then
\* pd.to_numeric(errors="coerce"); "", "nan", "None" and any other text that
\* is no number give NaN.  The cells of the model are integers or no number.
to_number(cell, removed) ==
    LET s == Remove(Strip(cell), removed)
    IN  IF s # <<>> /\ \A i \in 1..Len(s) : InSeq(s[i], Digits)
        THEN Float(DecimalValue(s), 1)
        ELSE NaN

RECURSIVE IntToStr(_)
IntToStr(k) ==
    IF k < 10 THEN <<Digits[k + 1]>>
    ELSE IntToStr(k \div 10) \o <<Digits[(k % 10) + 1]>>

\* num/den rounded to the nearest integer, a tie to the even one
RoundHalfEven(num, den) ==
    LET q == num \div den
        r == num % den
    IN  IF 2 * r > den \/ (2 * r = den /\ q % 2 = 1) THEN q + 1 ELSE q

SignText(x) == IF x.n < 0 THEN <<"-">> ELSE <<>>

\* _fmt_pct: "" for NaN, else f"{x * 100:.2f}%"
fmt_pct(x) ==
    IF IsNaN(x) THEN <<>>
    ELSE IF IsInf(x) THEN SignText(x) \o <<"i", "n", "f", "%">>
    ELSE LET h == RoundHalfEven(Abs(x.n) * 10000, x.d)
         IN  SignText(x) \o IntToStr(h \div 100) \o <<".">>
             \o <<Digits[((h % 100) \div 10) + 1], Digits[(h % 10) + 1]>>
             \o <<"%">>

\* the fmt "percent_int" of add_column_ratio: f"{x * 100:.0f}%"
fmt_pct_int(x) ==
    IF IsNaN(x) THEN <<>>
    ELSE IF IsInf(x) THEN SignText(x) \o <<"i", "n", "f", "%">>
    ELSE SignText(x) \o IntToStr(RoundHalfEven(Abs(x.n) * 100, x.d)) \o <<"%">>

---------------------------------------------------------------------------
(* aggregate_by_store.py: files, tables and the store universe *)

\* A source file of input/aggregate is the sequence of its data rows, each
\* row a record of cells by column; a table written by to_csv is its column
\* names and its rows, a row being a record by column name whose cells are
\* strings or numbers.  The Chinese file and column names are written as
\* ASCII tokens.  No column name of the modelled reports ends in ".N", so
\* _normalize_headers leaves the names as they are.
Table(columns, rows) == [columns |-> columns, rows |-> rows]

\* ord() of a character of a directory name
CharCode(c) == IF InSeq(c, Digits) THEN 48 + DigitValue(c) ELSE 128

\* a < b of two Python strings
RECURSIVE StrLess(_, _)
StrLess(a, b) ==
    IF a = <<>> THEN b # <<>>
    ELSE IF b = <<>> THEN FALSE
    ELSE IF Head(a) = Head(b) THEN StrLess(Tail(a), Tail(b))
    ELSE CharCode(Head(a)) < CharCode(Head(b))

\* sorted() of a set of strings
RECURSIVE Sorted(_)
Sorted(names) ==
    IF names = {} THEN <<>>
    ELSE LET least == CHOOSE a \in names : \A b \in names \ {a} : StrLess(a, b)
         IN  <<least>> \o Sorted(names \ {least})

\* get_all_store_ids: the sorted names of the directories of the tree
get_all_store_ids(tree) == Sorted(DOMAIN tree)

WriteOnlyRows(tree, store_id, filename, df, columns) ==
    IF df.rows = <<>> THEN tree ELSE WithFile(tree, store_id, filename, df)

\* write_store_csv_with_fill for one store: mkdir(parents, exist_ok), then
\* the header alone when df is empty, else df
write_store_csv_with_fill(tree, store_id, filename, df, columns) ==
    WithFile(tree, store_id, filename,
             IF df.rows = <<>> THEN Table(columns, <<>>) ELSE df)

\* The loop "for sid in all_store_ids: ... write_store_csv_with_fill(...)"
\* of a report whose frame for each store is grouped[sid]; the stores are
\* those of the tree the loop starts from.
RECURSIVE WriteStores(_, _, _, _, _)
WriteStores(tree, todo_ids, filename, grouped, columns) ==
    IF todo_ids = <<>> THEN tree
    ELSE LET sid == Head(todo_ids)
         IN  WriteStores(
                 write_store_csv_with_fill(tree, sid, filename,
                                           Table(columns, grouped[sid]), columns),
                 Tail(todo_ids), filename, grouped, columns)

\* The outcome of run_aggregation: the tree it leaves and what it raised
Returned(tree) == [tree |-> tree, raised |-> "None"]

Swallowed(tree, exception) == [tree |-> tree, raised |-> "None"]

\* run_aggregation left by an exception: nothing was written before it
Raised(tree, exception) == [tree |-> tree, raised |-> exception]

\* Series.sum(): the sum of a sequence of values, from 0
RECURSIVE Sum(_)
Sum(values) ==
    IF values = <<>> THEN Float(0, 1)
    ELSE Plus(Head(values), Sum(Tail(values)))

\* The concatenation of a sequence of sequences
RECURSIVE Concat(_)
Concat(seqs) ==
    IF seqs = <<>> THEN <<>>
    ELSE Head(seqs) \o Concat(Tail(seqs))

\* The right-hand values of a left merge on the store column for one key:
\* the values of the matching rows in order, one NaN when none matches
MergeValues(rows, store_id, removed) ==
    LET Mine(r) == Strip(r.store) = store_id
        mine == SelectSeq(rows, Mine)
    IN  IF mine = <<>> THEN <<NaN>>
        ELSE [i \in 1..Len(mine) |-> fillna(to_number(mine[i].value, removed))]

---------------------------------------------------------------------------
(* aggregate_by_store.py: the KPI cards 23-1 and 24-1 *)

YEAR_CURRENT == <<"2", "0", "2", "5">>

YEAR_PREV == <<"2", "0", "2", "4">>

\* The three source files of CONFIGS["23-1"]["sources"]
INTERVAL_BIND_FILE == "interval_bind.csv"

CUMULATIVE_BIND_FILE == "cumulative_bind.csv"

MEMBER_TOTAL_FILE == "member_total.csv"

OUTPUT_23_1 == "23-1.csv"

OUTPUT_24_1 == "24-1.csv"

COLUMNS_23_1 ==
    <<"store", "interval_bind", "interval_bind_yoy", "bind_rate",
      "cumulative_bind", "member_total">>

COLUMNS_24_1 ==
    <<"store", "bind_rate", "interval_bind", "interval_bind_yoy",
      "cumulative_bind", "member_total">>

\* the characters _to_number of 23-1 and 24-1 removes
THOUSANDS_AND_PERCENT == {",", "%"}

\* lines 523-529: strip, keep the digits, pd.to_numeric
month_number(cell) ==
    LET IsDigitChar(c) == InSeq(c, Digits)
        digits == SelectSeq(Strip(cell), IsDigitChar)
    IN  IF digits = <<>> THEN NaN ELSE Float(DecimalValue(digits), 1)

\* 24-1 takes the rows of every month
AnyMonth(row) == TRUE

\* line 530: between(1, 12)
MonthBetween1And12(row) ==
    LET m == month_number(row.month)
    IN  ~IsNaN(m) /\ 1 <= m.n /\ m.n <= 12

\* df_cur or df_prev of a store: the rows of the year, the store column
\* stripped
RowsOfYear(rows, year, store_id) ==
    LET Mine(r) == r.year = year /\ Strip(r.store) = store_id
    IN  SelectSeq(rows, Mine)

\* groupby(store).sum() of the value column for one store
SumOfYear(rows, year, store_id) ==
    LET mine == RowsOfYear(rows, year, store_id)
    IN  Sum([i \in 1..Len(mine) |->
                fillna(to_number(mine[i].value, THOUSANDS_AND_PERCENT))])

\* the stores that groupby finds in the rows of the year
StoresOfYear(rows, year) ==
    {Strip(rows[i].store) : i \in {j \in 1..Len(rows) : rows[j].year = year}}

\* (cur - prev) / prev, masked where prev is 0; prev is NaN for a store
\* without rows of the prior year (left merge)
YoY(rows, store_id) ==
    LET cur == SumOfYear(rows, YEAR_CURRENT, store_id)
        prev == IF store_id \in StoresOfYear(rows, YEAR_PREV)
                THEN SumOfYear(rows, YEAR_PREV, store_id) ELSE NaN
    IN  Where(Divide(Minus(cur, prev), prev), ~IsZero(prev))

\* cumulative / members, masked where members is 0
BindRate(cum, mem) == Where(Divide(cum, mem), ~IsZero(mem))

\* The rows of result for one store of cur_sum: one per pair of matching
\* rows of the cumulative and the member file.  23-1 fills the NaN of the
\* merges with 0 (lines 598-599), 24-1 does not.
KpiRows(dir, rows, store_id, fill_merged) ==
    LET Fill(x) == IF fill_merged THEN fillna(x) ELSE x
        cums == MergeValues(dir[CUMULATIVE_BIND_FILE], store_id,
                            THOUSANDS_AND_PERCENT)
        mems == MergeValues(dir[MEMBER_TOTAL_FILE], store_id,
                            THOUSANDS_AND_PERCENT)
        Row(cum, mem) ==
            [store |-> store_id,
             interval_bind |-> SumOfYear(rows, YEAR_CURRENT, store_id),
             interval_bind_yoy |-> fmt_pct(YoY(rows, store_id)),
             bind_rate |-> fmt_pct(BindRate(Fill(cum), Fill(mem))),
             cumulative_bind |-> Fill(cum),
             member_total |-> Fill(mem)]
    IN  Concat([i \in 1..Len(cums) |->
                   [j \in 1..Len(mems) |-> Row(cums[i], mems[j])]])

\* grouped.get(sid) for every store of the universe
KpiGrouped(dir, rows, tree, fill_merged) ==
    [sid \in DOMAIN tree |->
        IF sid \in StoresOfYear(rows, YEAR_CURRENT)
        THEN KpiRows(dir, rows, sid, fill_merged) ELSE <<>>]

KpiSources == {INTERVAL_BIND_FILE, CUMULATIVE_BIND_FILE, MEMBER_TOTAL_FILE}

\* the branch config_key == "23-1" (lines 506-653)
Run_23_1(dir, tree) ==
    IF ~(KpiSources \subseteq DOMAIN dir)
    THEN Raised(tree, "FileNotFoundError")
    ELSE LET rows == SelectSeq(dir[INTERVAL_BIND_FILE], MonthBetween1And12)
         IN  Returned(WriteStores(tree, get_all_store_ids(tree), OUTPUT_23_1,
                                  KpiGrouped(dir, rows, tree, TRUE),
                                  COLUMNS_23_1))

\* the branch config_key == "24-1" (lines 755-866)
Run_24_1(dir, tree) ==
    IF ~(KpiSources \subseteq DOMAIN dir)
    THEN Raised(tree, "FileNotFoundError")
    ELSE LET rows == SelectSeq(dir[INTERVAL_BIND_FILE], AnyMonth)
         IN  Returned(WriteStores(tree, get_all_store_ids(tree), OUTPUT_24_1,
                                  KpiGrouped(dir, rows, tree, FALSE),
                                  COLUMNS_24_1))

---------------------------------------------------------------------------
(* aggregate_by_store.py: the Top-5 and Bottom-5 reports 25-1 and 25-2 *)

FIRST_PURCHASE_FILE == "first_purchase_by_shop.csv"

BIND_BY_SHOP_FILE == "bind_by_shop.csv"

OUTPUT_25_1 == "25-1.csv"

OUTPUT_25_2 == "25-2.csv"

COLUMNS_25 ==
    <<"store", "shop_name", "first_purchase", "referral_bind",
      "referral_ratio">>

\* the character _to_number of 25-1 and 25-2 removes
THOUSANDS == {","}

\* head(5)
HEAD == 5

\* 25-1 keeps every row (astype(str) turns a missing name into "nan");
\* 25-2 drops the rows whose stripped name is empty or missing.
KeepsName_25_1(row) == TRUE

KeepsName_25_2(row) == Strip(row.name) # <<>>

KeepsName(key, row) ==
    IF key = "25-1" THEN KeepsName_25_1(row) ELSE KeepsName_25_2(row)

\* ref_sum merged to one row of df_fp: the 2025 sum of the shop, 0 when the
\* shop has no 2025 row (fillna after the left merge)
ReferralBind(ref_rows, fp_row) ==
    LET Mine(r) == /\ r.year = YEAR_CURRENT
                   /\ Strip(r.store) = Strip(fp_row.store)
                   /\ Strip(r.name) = Strip(fp_row.name)
        mine == SelectSeq(ref_rows, Mine)
    IN  Sum([i \in 1..Len(mine) |-> fillna(to_number(mine[i].value, THOUSANDS))])

\* One row of result: the numeric ratio is kept for the sort
ShopRow(ref_rows, fp_row) ==
    LET fp == fillna(to_number(fp_row.value, THOUSANDS))
        ref == ReferralBind(ref_rows, fp_row)
    IN  [store |-> Strip(fp_row.store),
         shop_name |-> Strip(fp_row.name),
         first_purchase |-> fp,
         referral_bind |-> ref,
         referral_ratio |-> Where(Divide(ref, fp), ~IsZero(fp))]

\* The rows of result of one store, in the order of the first-purchase file
ShopRows(dir, store_id, key) ==
    LET Mine(r) == KeepsName(key, r) /\ Strip(r.store) = store_id
        mine == SelectSeq(dir[FIRST_PURCHASE_FILE], Mine)
    IN  [i \in 1..Len(mine) |-> ShopRow(dir[BIND_BY_SHOP_FILE], mine[i])]

\* Key a must come before key b in sort_values(ascending, na_position="last")
Before(a, b, ascending) ==
    IF IsNaN(a) THEN FALSE
    ELSE IF IsNaN(b) THEN TRUE
    ELSE IF ascending THEN Less(a, b)
    ELSE Less(b, a)

\* The orders sort_values may leave rows with these keys in, as sequences
\* of row positions: its default kind is "quicksort", which is not stable,
\* so rows of equal key may come in any order; the rows without a key come
\* last, in their original order.
RECURSIVE SortOrders(_, _, _)
SortOrders(keys, left, ascending) ==
    IF left = {} THEN {<<>>}
    ELSE LET first == {i \in left :
                         /\ \A j \in left : ~Before(keys[j], keys[i], ascending)
                         /\ IsNaN(keys[i]) => \A j \in left : i <= j}
         IN  UNION {{<<i>> \o t : t \in SortOrders(keys, left \ {i}, ascending)} :
                       i \in first}

\* g.sort_values(...).head(5), then the ratio formatted (lines 1072-1074)
HeadOf(rows, order) ==
    [k \in 1..(IF Len(order) < HEAD THEN Len(order) ELSE HEAD) |->
        [rows[order[k]] EXCEPT !.referral_ratio = fmt_pct(@)]]

\* The frames grouped may hold for the stores of the universe
TopGroupeds(dir, tree, key, ascending) ==
    LET Choices(sid) ==
            LET rows == ShopRows(dir, sid, key)
                keys == [i \in 1..Len(rows) |-> rows[i].referral_ratio]
            IN  {HeadOf(rows, order) :
                    order \in SortOrders(keys, 1..Len(rows), ascending)}
    IN  {g \in [DOMAIN tree -> UNION {Choices(sid) : sid \in DOMAIN tree}] :
            \A sid \in DOMAIN tree : g[sid] \in Choices(sid)}

TopSources == {FIRST_PURCHASE_FILE, BIND_BY_SHOP_FILE}

\* the branch config_key == "25-1" (lines 981-1088): the outcomes it may have
Run_25_1(dir, tree) ==
    IF ~(TopSources \subseteq DOMAIN dir)
    THEN {Raised(tree, "FileNotFoundError")}
    ELSE {Returned(WriteStores(tree, get_all_store_ids(tree), OUTPUT_25_1,
                               grouped, COLUMNS_25)) :
             grouped \in TopGroupeds(dir, tree, "25-1", FALSE)}

\* the branch config_key == "25-2" (lines 1091-1209): the outcomes it may have
Run_25_2(dir, tree) ==
    IF ~(TopSources \subseteq DOMAIN dir)
    THEN {Raised(tree, "FileNotFoundError")}
    ELSE {Returned(WriteStores(tree, get_all_store_ids(tree), OUTPUT_25_2,
                               grouped, COLUMNS_25)) :
             grouped \in TopGroupeds(dir, tree, "25-2", TRUE)}

---------------------------------------------------------------------------
(* aggregate_by_store.py: the per-store ratio reports 4 and 7-1 ... 9-2 *)

\* The entries of CONFIGS the ratio branches read.  "4" has its two ratios
\* in value_col_* and ratio_target_col_* and cleans "," only; the branch of
\* 7-1 ... 9-2 also strips a leading quote and "%".  7-2, 8-1, 8-2, 9-1 and
\* 9-2 run the code of 7-1 with other column names.
RATIO_CONFIGS ==
    [k \in {"4", "7-1"} |->
        IF k = "4"
        THEN [input_file |-> "4.csv", output_file |-> "4.csv",
              ratios |-> << [source_col |-> "order_amount",
                             target_col |-> "amount_ratio", fmt |-> "percent"],
                            [source_col |-> "sessions",
                             target_col |-> "traffic_ratio", fmt |-> "percent"] >>,
              lstripped |-> {}, removed |-> {","}]
        ELSE [input_file |-> "7-1.csv", output_file |-> "7-1.csv",
              ratios |-> << [source_col |-> "sessions",
                             target_col |-> "sessions_ratio", fmt |-> "percent"],
                            [source_col |-> "online_orders",
                             target_col |-> "online_orders_ratio", fmt |-> "percent"],
                            [source_col |-> "online_signups",
                             target_col |-> "online_signups_ratio", fmt |-> "percent"] >>,
              lstripped |-> {"'"}, removed |-> {",", "%"}]]

\* read_store_input_csv: the table; None, here the table without columns,
\* when the file is absent
read_store_input_csv(tree, store_id, filename) ==
    IF Exists(tree, store_id, filename) THEN tree[store_id][filename]
    ELSE Table(<<>>, <<>>)

\* str.lstrip(chars)
RECURSIVE LStripChars(_, _)
LStripChars(s, chars) ==
    IF s # <<>> /\ Head(s) \in chars THEN LStripChars(Tail(s), chars) ELSE s

\* The cleaning of a source cell: astype(str) makes a missing cell "nan"
CleanCell(cell, cfg) ==
    LET text == IF cell = <<>> THEN <<"n", "a", "n">> ELSE cell
    IN  Strip(Remove(LStripChars(text, cfg.lstripped), cfg.removed))

\* The table with the column set to the cells, appended when it is new
SetColumn(table, col, cells) ==
    Table(IF InSeq(col, table.columns) THEN table.columns
          ELSE Append(table.columns, col),
          [i \in 1..Len(table.rows) |->
              [c \in DOMAIN table.rows[i] \cup {col} |->
                  IF c = col THEN cells[i] ELSE table.rows[i][c]]])

\* add_column_ratio on a frame that has rows
add_column_ratio(df, source_col, target_col, fmt) ==
    LET values == [i \in 1..Len(df.rows) |->
                      fillna(to_number(df.rows[i][source_col], {}))]
        total == Sum(values)
        Format(x) == IF fmt = "percent" THEN fmt_pct(x) ELSE fmt_pct_int(x)
    IN  IF IsZero(total)
        THEN SetColumn(df, target_col, [i \in 1..Len(df.rows) |-> <<>>])
        ELSE SetColumn(df, target_col,
                       [i \in 1..Len(df.rows) |-> Format(Divide(values[i], total))])

\* "for ratio_cfg in cfg["ratios"]": clean the source column, add the ratio
RECURSIVE ApplyRatios(_, _, _)
ApplyRatios(g, ratios, cfg) ==
    IF ratios = <<>> THEN g
    ELSE LET r == Head(ratios)
             cleaned == SetColumn(g, r.source_col,
                            [i \in 1..Len(g.rows) |->
                                CleanCell(g.rows[i][r.source_col], cfg)])
         IN  ApplyRatios(IF InSeq(r.source_col, g.columns)
                         THEN add_column_ratio(cleaned, r.source_col,
                                               r.target_col, r.fmt)
                         ELSE g,
                         Tail(ratios), cfg)

TargetColumns(cfg) == [i \in 1..Len(cfg.ratios) |-> cfg.ratios[i].target_col]

\* The loop over all_store_ids of a ratio branch; expected_columns is <<>>
\* while it is None.  Frames are read from in_tree and written to out_tree.
RECURSIVE RatioLoop(_, _, _, _, _)
RatioLoop(in_tree, out_tree, ids, cfg, expected_columns) ==
    IF ids = <<>> THEN out_tree
    ELSE LET sid == Head(ids)
             g == read_store_input_csv(in_tree, sid, cfg.input_file)
             has_rows == g.rows # <<>>
             out_df == IF has_rows THEN ApplyRatios(g, cfg.ratios, cfg)
                       ELSE Table(<<>>, <<>>)
             expected == IF expected_columns # <<>> THEN expected_columns
                         ELSE IF has_rows THEN out_df.columns
                         ELSE TargetColumns(cfg)
         IN  RatioLoop(in_tree,
                       write_store_csv_with_fill(out_tree, sid, cfg.output_file,
                                                 out_df, expected),
                       Tail(ids), cfg, expected)

\* the branches config_key == "4" (lines 336-412) and config_key in
\* ["7-1", ...] (lines 415-503), without --ting-test
RunRatio(key, tree) ==
    Returned(RatioLoop(tree, tree, get_all_store_ids(tree),
                       RATIO_CONFIGS[key], <<>>))

---------------------------------------------------------------------------
(* aggregate_by_store.py: the monthly tables 23-2 and 24-2 *)

FIRST_PURCHASE_BY_MONTH_FILE == "first_purchase_by_month.csv"

OUTPUT_23_2 == "23-2.csv"

OUTPUT_24_2 == "24-2.csv"

COLUMNS_23_2 == <<"store", "month", "y2024", "y2025", "yoy">>

COLUMNS_24_2 ==
    <<"store", "month", "first_purchase", "referral_bind", "referral_ratio">>

\* range(1, 13)
MONTHS == 1..12

\* 23-2, line 678: _to_number(month).astype("Int64")
MonthOf_23_2(cell) == to_number(cell, THOUSANDS)

\* 23-2, lines 682-688: the rows groupby keeps, those of the two years whose
\* month is a number
Rows_23_2(rows) ==
    LET Kept(r) == /\ r.year \in {YEAR_PREV, YEAR_CURRENT}
                   /\ ~IsNaN(MonthOf_23_2(r.month))
    IN  SelectSeq(rows, Kept)

\* One cell of the pivot after reindex: the sum of the store, month and
\* year, 0 where there is no row
PivotCell(rows, store_id, month, year) ==
    LET Mine(r) == /\ Strip(r.store) = store_id
                   /\ r.year = year
                   /\ MonthOf_23_2(r.month).n = month
        mine == SelectSeq(rows, Mine)
    IN  Sum([i \in 1..Len(mine) |-> fillna(to_number(mine[i].value, THOUSANDS))])

\* The twelve rows of one store of the pivot, by month
MonthlyRows_23_2(rows, store_id) ==
    [m \in MONTHS |->
        LET v24 == PivotCell(rows, store_id, m, YEAR_PREV)
            v25 == PivotCell(rows, store_id, m, YEAR_CURRENT)
        IN  [store |-> store_id, month |-> Float(m, 1),
             y2024 |-> v24, y2025 |-> v25,
             yoy |-> fmt_pct(Where(Divide(Minus(v25, v24), v24), ~IsZero(v24)))]]

\* the branch config_key == "23-2" (lines 656-752): the outcomes it may
\* have.  The pivot has a column for a year only if some kept row has the
\* year: without kept rows pd.concat of no frame or the lookup of the store
\* column raises, and without a row of one of the years the lookup of its
\* column does.
Run_23_2(dir, tree) ==
    IF INTERVAL_BIND_FILE \notin DOMAIN dir
    THEN {Raised(tree, "FileNotFoundError")}
    ELSE LET rows == Rows_23_2(dir[INTERVAL_BIND_FILE])
             years == {rows[i].year : i \in 1..Len(rows)}
             stores == {Strip(rows[i].store) : i \in 1..Len(rows)}
             grouped == [sid \in DOMAIN tree |->
                            IF sid \in stores THEN MonthlyRows_23_2(rows, sid)
                            ELSE <<>>]
         IN  IF rows = <<>>
             THEN {Raised(tree, "ValueError"), Raised(tree, "KeyError")}
             ELSE IF years # {YEAR_PREV, YEAR_CURRENT}
             THEN {Raised(tree, "KeyError")}
             ELSE {Returned(WriteStores(tree, get_all_store_ids(tree),
                                        OUTPUT_23_2, grouped, COLUMNS_23_2))}

\* 24-2, _parse_month: the digits of the cell, the last two of them when
\* there are six or more, kept when between 1 and 12
parse_month(cell) ==
    LET IsDigitChar(c) == InSeq(c, Digits)
        digits == SelectSeq(Strip(cell), IsDigitChar)
        m == IF Len(digits) < 6 THEN digits
             ELSE SubSeq(digits, Len(digits) - 1, Len(digits))
        m_num == IF m = <<>> THEN NaN ELSE Float(DecimalValue(m), 1)
    IN  Where(m_num, ~IsNaN(m_num) /\ 1 <= m_num.n /\ m_num.n <= 12)

\* ref_monthly merged to one row of df_fp: the 2025 sum of store and month
ReferralBindOfMonth(ref_rows, store_id, month) ==
    LET Mine(r) == /\ r.year = YEAR_CURRENT
                   /\ Strip(r.store) = store_id
                   /\ parse_month(r.month) = month
        mine == SelectSeq(ref_rows, Mine)
    IN  Sum([i \in 1..Len(mine) |-> fillna(to_number(mine[i].value, THOUSANDS))])

\* The rows of result of one store, in the order of the first-purchase file
MonthlyRows_24_2(dir, store_id) ==
    LET Mine(r) == ~IsNaN(parse_month(r.month)) /\ Strip(r.store) = store_id
        mine == SelectSeq(dir[FIRST_PURCHASE_BY_MONTH_FILE], Mine)
    IN  [i \in 1..Len(mine) |->
            LET fp == fillna(to_number(mine[i].value, THOUSANDS))
                ref == ReferralBindOfMonth(dir[INTERVAL_BIND_FILE], store_id,
                                           parse_month(mine[i].month))
            IN  [store |-> store_id,
                 month |-> parse_month(mine[i].month),
                 first_purchase |-> fp,
                 referral_bind |-> ref,
                 referral_ratio |-> fmt_pct(Where(Divide(ref, fp), ~IsZero(fp)))]]

\* The frames grouped may hold after sort_values(month_col)
Groupeds_24_2(dir, tree) ==
    LET Choices(sid) ==
            LET rows == MonthlyRows_24_2(dir, sid)
                keys == [i \in 1..Len(rows) |-> rows[i].month]
            IN  {[k \in 1..Len(rows) |-> rows[order[k]]] :
                    order \in SortOrders(keys, 1..Len(rows), TRUE)}
    IN  {g \in [DOMAIN tree -> UNION {Choices(sid) : sid \in DOMAIN tree}] :
            \A sid \in DOMAIN tree : g[sid] \in Choices(sid)}

\* the branch config_key == "24-2" (lines 869-978): the outcomes it may have
Run_24_2(dir, tree) ==
    IF ~({FIRST_PURCHASE_BY_MONTH_FILE, INTERVAL_BIND_FILE} \subseteq DOMAIN dir)
    THEN {Raised(tree, "FileNotFoundError")}
    ELSE {Returned(WriteStores(tree, get_all_store_ids(tree), OUTPUT_24_2,
                               grouped, COLUMNS_24_2)) :
             grouped \in Groupeds_24_2(dir, tree)}

---------------------------------------------------------------------------
(* aggregate_by_store.py: run_aggregation *)

\* The keys of CONFIGS (lines 167-327)
CONFIG_KEYS ==
    {"27", "4", "7-1", "7-2", "8-1", "9-1", "8-2", "9-2",
     "23-1", "23-2", "24-1", "24-2", "25-1", "25-2"}

\* The "months" entries of CONFIGS (lines 279-282, 292 and 302 for 23-2,
\* 24-1 and 24-2): period labels yyyymm.  No branch that run_aggregation
\* takes for these keys reads them; the filter of line 1297 is in the
\* legacy code after the branches, which every key of CONFIGS returns before.
CONFIG_MONTHS ==
    [k \in {"23-2", "24-1", "24-2"} |->
        IF k = "23-2"
        THEN {<<"2", "0", "2", "4", "0", m>> : m \in {"1", "2", "3", "4", "5", "6", "7", "8", "9"}}
             \cup {<<"2", "0", "2", "4", "1", m>> : m \in {"0", "1", "2"}}
        ELSE IF k = "24-1"
        THEN {<<"2", "0", "2", "4", "0", m>> : m \in {"5", "6", "7"}}
        ELSE {<<"2", "0", "2", "4", "0", m>> : m \in {"1", "2", "3", "4"}}]

\* run_aggregation(config_key) without --ting-test: the outcomes it may have
\* on the source directory and the output tree
run_aggregation(key, dir, tree) ==
    IF key \notin CONFIG_KEYS THEN {Raised(tree, "ValueError")}
    ELSE IF key \in DOMAIN RATIO_CONFIGS THEN {RunRatio(key, tree)}
    ELSE IF key = "23-1" THEN {Run_23_1(dir, tree)}
    ELSE IF key = "23-2" THEN Run_23_2(dir, tree)
    ELSE IF key = "24-1" THEN {Run_24_1(dir, tree)}
    ELSE IF key = "24-2" THEN Run_24_2(dir, tree)
    ELSE IF key = "25-1" THEN Run_25_1(dir, tree)
    ELSE Run_25_2(dir, tree)

---------------------------------------------------------------------------
(* Inputs of the aggregator *)

S100 == <<"1", "0", "0">>

S200 == <<"2", "0", "0">>

S300 == <<"3", "0", "0">>

\* Rows of the interval-binding file: store 100 with and without blanks,
\* both years, months in and out of 1..12, values with a thousands
\* separator, zero, and no number; a store outside the universe.
IntervalRowPool ==
    { [store |-> <<" ", "1", "0", "0">>, year |-> YEAR_CURRENT,
       month |-> <<"0", "1">>, value |-> <<"1", ",", "2", "0", "0">>],
      [store |-> S100, year |-> YEAR_PREV,
       month |-> <<"1", "2">>, value |-> <<"8", "0", "0">>],
      [store |-> S100, year |-> YEAR_PREV,
       month |-> <<"1">>, value |-> <<"0">>],
      [store |-> S100, year |-> YEAR_CURRENT,
       month |-> <<"1", "3">>, value |-> <<"5">>],
      [store |-> S100, year |-> YEAR_CURRENT,
       month |-> <<"2">>, value |-> <<"5", "0", "0">>],
      [store |-> S200, year |-> YEAR_CURRENT,
       month |-> <<"3">>, value |-> <<"x">>],
      [store |-> S300, year |-> YEAR_CURRENT,
       month |-> <<"0", "2">>, value |-> <<"7">>] }

IntervalFiles == UNION {SeqsOfLen(IntervalRowPool, n) : n \in 0..MaxSourceRows}

\* The cumulative and the member file of a KPI card, or the lack of one
KpiSidePool ==
    { [cum |-> << [store |-> S100, value |-> <<"3", "0", "0">>] >>,
       mem |-> << [store |-> S100, value |-> <<"1", ",", "0", "0", "0">>],
                  [store |-> S200, value |-> <<"x">>] >>],
      [cum |-> << [store |-> S100, value |-> <<"3", "0", "0">>] >>,
       mem |-> << [store |-> <<"1", "0", "0", " ">>, value |-> <<"0">>] >>],
      [cum |-> << [store |-> S100, value |-> <<"2">>],
                  [store |-> S100, value |-> <<"3">>] >>,
       mem |-> <<>>],
      [mem |-> << [store |-> S100, value |-> <<"4">>] >>],
      [cum |-> << [store |-> S100, value |-> <<"4">>] >>] }

\* input/aggregate for 23-1 and 24-1
KpiDirs ==
    {[f \in {INTERVAL_BIND_FILE} \cup
             {IF k = "cum" THEN CUMULATIVE_BIND_FILE ELSE MEMBER_TOTAL_FILE :
                 k \in DOMAIN side} |->
         IF f = INTERVAL_BIND_FILE THEN interval
         ELSE IF f = CUMULATIVE_BIND_FILE THEN side.cum ELSE side.mem] :
        interval \in IntervalFiles, side \in KpiSidePool}
    \cup {[f \in {CUMULATIVE_BIND_FILE, MEMBER_TOTAL_FILE} |-> <<>>]}

\* input/aggregate for 23-2
MonthlyDirs ==
    {[f \in {INTERVAL_BIND_FILE} |-> interval] : interval \in IntervalFiles}
    \cup {<<>>}

\* Rows of the first-purchase-by-month file: months written as YYYYMM and
\* YYYY-MM, a month out of 1..12, a count of zero
FirstPurchaseMonthRowPool ==
    { [store |-> S100, month |-> <<"2", "0", "2", "5", "0", "1">>,
       value |-> <<"4">>],
      [store |-> S100, month |-> <<"2", "0", "2", "5", "-", "0", "2">>,
       value |-> <<"0">>],
      [store |-> S200, month |-> <<"1", "3">>, value |-> <<"1">>] }

\* input/aggregate for 24-2
ConversionDirs ==
    {[f \in {FIRST_PURCHASE_BY_MONTH_FILE, INTERVAL_BIND_FILE} |->
         IF f = INTERVAL_BIND_FILE THEN interval ELSE fp] :
        fp \in UNION {SeqsOfLen(FirstPurchaseMonthRowPool, n) :
                         n \in 0..MaxSourceRows},
        interval \in {<<>>,
                      << [store |-> S100, year |-> YEAR_CURRENT,
                          month |-> <<"0", "1">>, value |-> <<"1">>],
                         [store |-> S100, year |-> YEAR_PREV,
                          month |-> <<"2">>, value |-> <<"9">>] >>}}
    \cup {[f \in {INTERVAL_BIND_FILE} |-> <<>>]}

\* The shops of store 100.  Their ratios are 100%, 50%, 50%, 9%, none (no
\* first purchase), 0% (no binding row), and so on in turn, so that two
\* shops tie and the order of the percentage strings is not that of the
\* numbers.
ShopName(i) == <<"s", Digits[i + 1]>>

ShopKind(i) == ((i - 1) % 6) + 1

FirstPurchaseOfKind ==
    << <<"1">>, <<"2">>, <<"2">>, <<"1", "0", "0">>, <<"0">>, <<"4">> >>

ReferralBindOfKind ==
    << <<"1">>, <<"1">>, <<"1">>, <<"9">>, <<"3">>, <<>> >>

FirstPurchaseRow(i) ==
    [store |-> S100, name |-> ShopName(i),
     value |-> FirstPurchaseOfKind[ShopKind(i)]]

\* The binding file: a 2025 row for every shop but those of the last kind,
\* and a 2024 row of the first shop
BindByShopFile ==
    LET HasRow(i) == ShopKind(i) # 6
        shops == SelectSeq([i \in 1..MaxShops |-> i], HasRow)
    IN  [k \in 1..Len(shops) |->
            [store |-> S100, name |-> ShopName(shops[k]), year |-> YEAR_CURRENT,
             value |-> ReferralBindOfKind[ShopKind(shops[k])]]]
        \o << [store |-> S100, name |-> ShopName(1), year |-> YEAR_PREV,
               value |-> <<"5", "0">>] >>

\* The shops 1..MaxShops in a row, begun at any shop, forwards or backwards
ShopOrders ==
    {[k \in 1..MaxShops |-> ((start + k - 2) % MaxShops) + 1] :
        start \in 1..MaxShops}
    \cup {[k \in 1..MaxShops |-> ((start - k + MaxShops) % MaxShops) + 1] :
             start \in 1..MaxShops}

\* input/aggregate for 25-1 and 25-2: the first shops of such a row, or one
\* of the two files alone
TopDirs ==
    {[f \in TopSources |->
         IF f = BIND_BY_SHOP_FILE THEN BindByShopFile
         ELSE [k \in 1..n |-> FirstPurchaseRow(order[k])]] :
        order \in ShopOrders, n \in 0..MaxShops}
    \cup {[f \in {BIND_BY_SHOP_FILE} |-> BindByShopFile],
          [f \in {FIRST_PURCHASE_FILE} |-> <<FirstPurchaseRow(1)>>]}

\* The per-store input tables of the ratio reports
WEB == <<"w", "e", "b">>

APP == <<"a", "p", "p">>

RatioTablePool ==
    { Table(<<"channel", "sessions", "order_amount">>,
            << [channel |-> WEB, sessions |-> <<"1", ",", "2", "0", "0">>,
                order_amount |-> <<"3", ",", "0", "0", "0">>],
               [channel |-> APP, sessions |-> <<"8", "0", "0">>,
                order_amount |-> <<"1", ",", "0", "0", "0">>] >>),
      Table(<<"channel", "sessions", "order_amount">>,
            << [channel |-> WEB, sessions |-> <<"0">>, order_amount |-> <<"x">>],
               [channel |-> APP, sessions |-> <<>>, order_amount |-> <<"0">>] >>),
      Table(<<"channel", "sessions", "online_orders">>,
            << [channel |-> WEB, sessions |-> <<"'", "5", "0", "%">>,
                online_orders |-> <<"7">>] >>),
      Table(<<"channel", "sessions">>, <<>>) }

\* The directory of a store: no file, or the input file of the report
StoreDirs(filename) ==
    {<<>>} \cup {[n \in {filename} |-> t] : t \in RatioTablePool}

\* ./output before a ratio report
RatioTrees(key) ==
    UNION {[ss -> StoreDirs(RATIO_CONFIGS[key].input_file)] :
              ss \in {{}, {S100}, {S100, S200}}}

\* The file a report writes into every store directory
OutputFile(key) ==
    IF key \in DOMAIN RATIO_CONFIGS THEN RATIO_CONFIGS[key].output_file
    ELSE IF key = "23-1" THEN OUTPUT_23_1
    ELSE IF key = "23-2" THEN OUTPUT_23_2
    ELSE IF key = "24-1" THEN OUTPUT_24_1
    ELSE IF key = "24-2" THEN OUTPUT_24_2
    ELSE IF key = "25-1" THEN OUTPUT_25_1
    ELSE OUTPUT_25_2

\* ./output before another report: no store, two stores without a file, or
\* one store with the file of an earlier run of the report
StoreTrees(key) ==
    { <<>>,
      [s \in {S100, S200} |-> <<>>],
      [s \in {S100} |->
          [n \in {OutputFile(key)} |-> Table(<<"store">>, <<>>)]] }

UNKNOWN_KEY == "99"

ModelledKeys == {"4", "7-1", "23-1", "23-2", "24-1", "24-2", "25-1", "25-2"}

\* The source directories and output trees a run of the report starts from
AggregateInputs(key) ==
    IF key \in DOMAIN RATIO_CONFIGS
    THEN {[dir |-> <<>>, tree |-> t] : t \in RatioTrees(key)}
    ELSE LET dirs == IF key \in {"23-1", "24-1"} THEN KpiDirs
                     ELSE IF key = "23-2" THEN MonthlyDirs
                     ELSE IF key = "24-2" THEN ConversionDirs
                     ELSE IF key \in {"25-1", "25-2"} THEN TopDirs
                     ELSE {<<>>}
         IN  {[dir |-> d, tree |-> t] : d \in dirs, t \in StoreTrees(key)}

\* fan_out_by_storeid.py and verify_fanout.py are not part of the run
NoFanout ==
    /\ input_dir = <<>>
    /\ output_dir = <<>>
    /\ todo = {}
    /\ run = 1
    /\ pc = "aggregate"
    /\ verdict = NotVerified

InitAggregate ==
    /\ config_key \in ModelledKeys \cup {UNKNOWN_KEY}
    /\ \E input \in AggregateInputs(config_key) :
        /\ AGGREGATE_INPUT_DIR = input.dir
        /\ OUTPUT_DIR = input.tree
    /\ raised = ""
    /\ NoTingTest
    /\ NoTools
    /\ NoFanout

\* python aggregate_by_store.py --config config_key
RunAggregation ==
    /\ raised = ""
    /\ \E outcome \in run_aggregation(config_key, AGGREGATE_INPUT_DIR, OUTPUT_DIR) :
        /\ OUTPUT_DIR' = outcome.tree
        /\ raised' = outcome.raised
    /\ UNCHANGED <<config_key, AGGREGATE_INPUT_DIR>>
    /\ UNCHANGED <<ting_test_mode, test_output_dir, test_runs>>
    /\ UNCHANGED fanout_vars
    /\ UNCHANGED tool_vars

SpecAggregate == InitAggregate /\ [][RunAggregation]_vars

---------------------------------------------------------------------------
(* aggregate_by_store.py --ting-test *)

\* The last component of the default --output-dir, "output/ting-test"
TING_TEST == <<"t", "i", "n", "g", "-", "t", "e", "s", "t">>

\* Path("./output") as iterdir and read_store_input_csv see it: the store
\* directories and, once it exists, the test directory, which holds store
\* directories and no file
OutputWithTestDir(output, test) ==
    IF test.exists
    THEN [s \in DOMAIN output \cup {TING_TEST} |->
             IF s \in DOMAIN output THEN output[s] ELSE <<>>]
    ELSE output

\* The ratio branches with ting_test_mode (lines 338-340, 416-418):
\* input_dir = Path("./output"), output_dir = Path("./output/ting-test");
\* write_store_csv_with_fill makes the test directory with the first store
RunRatioTingTest(key, output, test) ==
    LET in_tree == OutputWithTestDir(output, test)
        ids == get_all_store_ids(in_tree)
        out == RatioLoop(in_tree, test.tree, ids, RATIO_CONFIGS[key], <<>>)
    IN  [test |-> IF ids = <<>> THEN test ELSE Directory(out),
         raised |-> "None"]

\* main with --ting-test (lines 1335-1339): the global OUTPUT_DIR becomes the
\* test directory, so the other branches read input/aggregate as before and
\* take get_all_store_ids(OUTPUT_DIR) of the test directory, whose iterdir
\* raises FileNotFoundError when the directory does not exist
run_aggregation_ting_test(key, dir, output, test) ==
    IF key \notin CONFIG_KEYS THEN {[test |-> test, raised |-> "ValueError"]}
    ELSE IF key \in DOMAIN RATIO_CONFIGS
    THEN {RunRatioTingTest(key, output, test)}
    ELSE {IF outcome.raised # "None"
          THEN [test |-> test, raised |-> outcome.raised]
          ELSE IF ~test.exists
          THEN [test |-> test, raised |-> "FileNotFoundError"]
          ELSE [test |-> Directory(outcome.tree), raised |-> "None"] :
             outcome \in run_aggregation(key, dir, test.tree)}

\* ./output/ting-test before the first run: absent, empty, or holding the
\* directory of one store
TestDirs == {NoDirectory, Directory(<<>>), Directory([s \in {S100} |-> <<>>])}

TingTestKeys == {"4", "7-1", "23-1", "24-2"}

InitTingTest ==
    /\ config_key \in TingTestKeys
    /\ \E input \in AggregateInputs(config_key) :
        /\ AGGREGATE_INPUT_DIR = input.dir
        /\ OUTPUT_DIR = input.tree
    /\ raised = ""
    /\ ting_test_mode = TRUE
    /\ test_output_dir \in TestDirs
    /\ test_runs = 0
    /\ NoTools
    /\ NoFanout

\* python aggregate_by_store.py --config config_key --ting-test
RunTingTest ==
    /\ ting_test_mode
    /\ test_runs < MaxRuns
    /\ \E outcome \in run_aggregation_ting_test(
                         config_key, AGGREGATE_INPUT_DIR, OUTPUT_DIR,
                         test_output_dir) :
        /\ test_output_dir' = outcome.test
        /\ raised' = outcome.raised
    /\ test_runs' = test_runs + 1
    /\ UNCHANGED <<config_key, AGGREGATE_INPUT_DIR, OUTPUT_DIR, ting_test_mode>>
    /\ UNCHANGED fanout_vars
    /\ UNCHANGED tool_vars

SpecTingTest == InitTingTest /\ [][RunTingTest]_vars

---------------------------------------------------------------------------
(* verify_store_file_count.py *)

MaxFiles == 3     \* files directly in one directory
MaxLimit == 2     \* --limit-file-count

\* input_dir.rglob("*"), its directories: every directory below input_dir,
\* not input_dir itself
rglob(tree) == DOMAIN tree \ {<<>>}

ExceededOrAtLimit(tree, limit) ==
    {item \in rglob(tree) : tree[item] # 0 /\ tree[item] >= limit}

\* verify_store_dirs, the directories it prints: those with a file whose
\* file count is greater than the limit (lines 28-40)
exceeded(tree, limit) ==
    {item \in rglob(tree) : tree[item] # 0 /\ tree[item] > limit}

\* verify_store_dirs: error_count
verify_store_dirs(tree, limit) == Cardinality(exceeded(tree, limit))

\* main (lines 45-58): exit(1) when error_count > 0
verify_store_file_count(tree, limit) ==
    [ran |-> TRUE,
     printed |-> exceeded(tree, limit),
     exit_status |-> IF verify_store_dirs(tree, limit) > 0 THEN 1 ELSE 0]

\* Directory layouts: the input directory, two directories in it, and a
\* directory nested in the first of them
DirectoryLayouts ==
    { {<<>>}, {<<>>, <<"a">>}, {<<>>, <<"b">>}, {<<>>, <<"a">>, <<"b">>},
      {<<>>, <<"a">>, <<"a", "c">>}, {<<>>, <<"a">>, <<"b">>, <<"a", "c">>} }

\* argparse type=int takes a negative limit too
InitFileCount ==
    /\ \E layout \in DirectoryLayouts :
           count_input_dir \in [layout -> 0..MaxFiles]
    /\ limit_file_count \in (0 - 1)..MaxLimit
    /\ count_verdict = NotCounted
    /\ input_dir = <<>>
    /\ output_dir = <<>>
    /\ todo = {}
    /\ run = 1
    /\ pc = "idle"
    /\ verdict = NotVerified
    /\ NoAggregation
    /\ NoDownload

\* python verify_store_file_count.py --input-dir ... --limit-file-count ...
VerifyStoreFileCount ==
    /\ ~count_verdict.ran
    /\ count_verdict' = verify_store_file_count(count_input_dir, limit_file_count)
    /\ UNCHANGED <<count_input_dir, limit_file_count, downloader>>
    /\ UNCHANGED fanout_vars
    /\ UNCHANGED aggregate_vars

SpecFileCount == InitFileCount /\ [][VerifyStoreFileCount]_vars

---------------------------------------------------------------------------
(* Properties of the aggregator *)

\* The table the report has written for the store
Written(s) == OUTPUT_DIR[s][OutputFile(config_key)]

\* The integer a cell spells once blanks and separators are taken out, 0
\* when it spells none
CellInt(cell) ==
    LET Meant(c) == c \notin {" ", ",", "%", "'"}
        text == SelectSeq(cell, Meant)
    IN  IF text # <<>> /\ \A i \in 1..Len(text) : text[i] \in
               {"0", "1", "2", "3", "4", "5", "6", "7", "8", "9"}
        THEN DecimalValue(text) ELSE 0

\* The store a cell names, blanks aside
CellStore(cell) ==
    LET NotBlank(c) == c # " "
    IN  SelectSeq(cell, NotBlank)

RECURSIVE IntSum(_)
IntSum(ints) == IF ints = <<>> THEN 0 ELSE Head(ints) + IntSum(Tail(ints))

\* The sum of the value column over the rows of the interval file of the
\* store and the year; 23-1 takes the months 1..12 only
YearSum(s, year) ==
    LET Mine(r) == /\ CellStore(r.store) = s
                   /\ r.year = year
                   /\ config_key = "23-1" => CellInt(r.month) \in 1..12
        mine == SelectSeq(AGGREGATE_INPUT_DIR[INTERVAL_BIND_FILE], Mine)
    IN  IntSum([i \in 1..Len(mine) |-> CellInt(mine[i].value)])

\* The store has a row of the year in the interval file (23-1: of a month
\* in 1..12)
HasYearRows(s, year) ==
    \E i \in 1..Len(AGGREGATE_INPUT_DIR[INTERVAL_BIND_FILE]) :
        LET r == AGGREGATE_INPUT_DIR[INTERVAL_BIND_FILE][i]
        IN  /\ CellStore(r.store) = s
            /\ r.year = year
            /\ config_key = "23-1" => CellInt(r.month) \in 1..12

\* The ratio columns of a row of the report with, for each, whether its
\* denominator is 0
ZeroDenominators(s, row) ==
    IF config_key \in {"23-1", "24-1"}
    THEN {[cell |-> row.interval_bind_yoy, zero |-> YearSum(s, YEAR_PREV) = 0],
          [cell |-> row.bind_rate, zero |-> IsZero(row.member_total)]}
    ELSE IF config_key = "23-2"
    THEN {[cell |-> row.yoy, zero |-> IsZero(row.y2024)]}
    ELSE IF config_key \in {"24-2", "25-1", "25-2"}
    THEN {[cell |-> row.referral_ratio, zero |-> IsZero(row.first_purchase)]}
    ELSE {[cell |-> row[RATIO_CONFIGS[config_key].ratios[k].target_col],
           zero |-> IntSum([i \in 1..Len(Written(s).rows) |->
                       CellInt(Written(s).rows[i][
                           RATIO_CONFIGS[config_key].ratios[k].source_col])]) = 0] :
             k \in {j \in 1..Len(RATIO_CONFIGS[config_key].ratios) :
                       InSeq(RATIO_CONFIGS[config_key].ratios[j].source_col,
                             Written(s).columns)}}

\* C16: in every report that run_aggregation has written, a ratio whose
\* denominator (prior-year sum, total members, first-purchase count, column
\* total) is 0 is the empty string, hence neither "0.00%" nor an infinite
\* value; no run ends in a division error.
C16_ZeroDenominatorRendersEmpty ==
    /\ raised # "ZeroDivisionError"
    /\ raised = "None" =>
        \A s \in DOMAIN OUTPUT_DIR :
            \A i \in 1..Len(Written(s).rows) :
                \A ratio \in ZeroDenominators(s, Written(s).rows[i]) :
                    ratio.zero => ratio.cell = <<>>

\* C16 witness: 23-1 has written a row for a store whose rows of the prior
\* year sum to 0, and the YoY cell of the row is empty.
C16_Witness ==
    /\ raised = "None"
    /\ config_key = "23-1"
    /\ \E s \in DOMAIN OUTPUT_DIR :
        /\ HasYearRows(s, YEAR_PREV)
        /\ YearSum(s, YEAR_PREV) = 0
        /\ YearSum(s, YEAR_CURRENT) > 0
        /\ \E i \in 1..Len(Written(s).rows) :
               Written(s).rows[i].interval_bind_yoy = <<>>

\* The percentage a two-decimal percent string spells, in hundredths of a
\* percent: "50.00%" is 5000, "-12.50%" is -1250
PctHundredths(text) ==
    LET negative == text # <<>> /\ Head(text) = "-"
        Decimal(c) == c \in {"0", "1", "2", "3", "4", "5", "6", "7", "8", "9"}
        digits == SelectSeq(text, Decimal)
    IN  IF negative THEN 0 - DecimalValue(digits) ELSE DecimalValue(digits)

\* text is digits, a point, two digits and a percent sign, with a leading
\* minus sign at most
IsTwoDecimalPct(text) ==
    LET body == IF text # <<>> /\ Head(text) = "-" THEN Tail(text) ELSE text
        Decimal(c) == c \in {"0", "1", "2", "3", "4", "5", "6", "7", "8", "9"}
        n == Len(body)
    IN  /\ n >= 5
        /\ body[n] = "%"
        /\ Decimal(body[n - 1]) /\ Decimal(body[n - 2])
        /\ body[n - 3] = "."
        /\ \A i \in 1..(n - 4) : Decimal(body[i])

\* h hundredths of a percent is a nearest two-decimal rendering of the ratio
\* (cur - prev) / prev
NearestHundredths(h, cur, prev) ==
    LET scaled == 10000 * (cur - prev)
        diff == 2 * (h * prev - scaled)
    IN  (IF diff < 0 THEN 0 - diff ELSE diff) <= prev

\* C17: in the 23-1 report every store with current-year rows has a row, and
\* in each of its rows the interval-binding value is the sum of the value column over the
\* store's rows of 2025 with month in 1..12 and the YoY is (current sum -
\* prior-year sum) / prior-year sum as a two-decimal percentage, the prior
\* year sum taken over the store's rows of 2024; 1200 against 800 gives 1200
\* and "50.00%".
C17_IntervalSumAndYoY ==
    (raised = "None" /\ config_key = "23-1") =>
        \A s \in DOMAIN OUTPUT_DIR :
            HasYearRows(s, YEAR_CURRENT) =>
                LET cur == YearSum(s, YEAR_CURRENT)
                    prev == YearSum(s, YEAR_PREV)
                    rows == Written(s).rows
                IN  /\ Len(rows) >= 1
                    /\ \A i \in 1..Len(rows) :
                        /\ rows[i].interval_bind = Float(cur, 1)
                        /\ prev # 0 =>
                            /\ IsTwoDecimalPct(rows[i].interval_bind_yoy)
                            /\ NearestHundredths(
                                   PctHundredths(rows[i].interval_bind_yoy),
                                   cur, prev)
                        /\ (cur = 1200 /\ prev = 800) =>
                            rows[i].interval_bind_yoy =
                                <<"5", "0", ".", "0", "0", "%">>

\* C17 witness: 23-1 has written the row of a store whose rows of 2025 sum
\* to 1200 and whose rows of 2024 sum to 800.
C17_Witness ==
    /\ raised = "None"
    /\ config_key = "23-1"
    /\ \E s \in DOMAIN OUTPUT_DIR :
        /\ YearSum(s, YEAR_CURRENT) = 1200
        /\ YearSum(s, YEAR_PREV) = 800
        /\ Len(Written(s).rows) = 1
        /\ Written(s).rows[1].interval_bind = Float(1200, 1)
        /\ Written(s).rows[1].interval_bind_yoy = <<"5", "0", ".", "0", "0", "%">>

\* The candidate rows of the store in a Top-5 or Bottom-5 report, in the
\* order of the first-purchase file
Candidates(s) ==
    ShopRows(AGGREGATE_INPUT_DIR, s, config_key)

\* The place of candidate i in the stable order of the report: after the
\* candidates of a ratio that comes first (greater in 25-1, smaller in 25-2,
\* an undefined ratio last) and after the earlier candidates of equal ratio
StablePlace(cand, i) ==
    LET ascending == config_key = "25-2"
        Key(k) == cand[k].referral_ratio
        ahead == {j \in 1..Len(cand) :
                     \/ Before(Key(j), Key(i), ascending)
                     \/ /\ ~Before(Key(i), Key(j), ascending)
                        /\ j < i}
    IN  1 + Cardinality(ahead)

Mentioned(s) ==
    IF config_key \in DOMAIN RATIO_CONFIGS
    THEN /\ RATIO_CONFIGS[config_key].input_file \in DOMAIN OUTPUT_DIR[s]
         /\ OUTPUT_DIR[s][RATIO_CONFIGS[config_key].input_file].rows # <<>>
    ELSE \E n \in DOMAIN AGGREGATE_INPUT_DIR :
             \E i \in 1..Len(AGGREGATE_INPUT_DIR[n]) :
                 CellStore(AGGREGATE_INPUT_DIR[n][i].store) = s

\* The header of a report other than the ratio reports
ConfiguredHeader ==
    [k \in {"23-1", "23-2", "24-1", "24-2", "25-1", "25-2"} |->
        IF k = "23-1" THEN COLUMNS_23_1
        ELSE IF k = "23-2" THEN COLUMNS_23_2
        ELSE IF k = "24-1" THEN COLUMNS_24_1
        ELSE IF k = "24-2" THEN COLUMNS_24_2
        ELSE COLUMNS_25]

\* C19: when run_aggregation completes, every store directory the output
\* tree had at the start of the run holds the file of the report, with a
\* header; the file of a store without a row to report holds the header
\* alone (the configured header, in the reports that configure one).
C19_EveryStoreOfTheUniverseGetsAFile ==
    [][raised' = "None" =>
        \A s \in DOMAIN OUTPUT_DIR :
            /\ s \in DOMAIN OUTPUT_DIR'
            /\ OutputFile(config_key) \in DOMAIN OUTPUT_DIR'[s]
            /\ LET written == OUTPUT_DIR'[s][OutputFile(config_key)]
               IN  /\ written.columns # <<>>
                   /\ ~Mentioned(s) =>
                       /\ written.rows = <<>>
                       /\ config_key \in DOMAIN ConfiguredHeader =>
                           written.columns = ConfiguredHeader[config_key]]_vars

\* C19 witness: a completed run has left a header-only file for a store
\* without a row to report, next to a store whose file has rows.
C19_Witness ==
    /\ raised = "None"
    /\ config_key = "23-1"
    /\ \E s, t \in DOMAIN OUTPUT_DIR :
        /\ ~Mentioned(s)
        /\ Written(s) = Table(COLUMNS_23_1, <<>>)
        /\ Written(t).rows # <<>>

\* The source files the report reads from the aggregate input directory
\* before it writes; the ratio reports read none
RequiredSources ==
    IF config_key \in {"23-1", "24-1"}
    THEN {INTERVAL_BIND_FILE, CUMULATIVE_BIND_FILE, MEMBER_TOTAL_FILE}
    ELSE IF config_key = "23-2" THEN {INTERVAL_BIND_FILE}
    ELSE IF config_key = "24-2"
    THEN {FIRST_PURCHASE_BY_MONTH_FILE, INTERVAL_BIND_FILE}
    ELSE IF config_key \in {"25-1", "25-2"}
    THEN {FIRST_PURCHASE_FILE, BIND_BY_SHOP_FILE}
    ELSE {}

\* C20: run_aggregation raises (ValueError) on a key that CONFIGS does not
\* have and raises (FileNotFoundError) when a source file of the report is
\* missing, and whenever it raises the output tree is as it was before the
\* call.
C20_RaisesBeforeAnyOutput ==
    [][/\ config_key \notin CONFIG_KEYS =>
            raised' = "ValueError"
       /\ (/\ config_key \in CONFIG_KEYS
           /\ ~(RequiredSources \subseteq DOMAIN AGGREGATE_INPUT_DIR)) =>
            raised' = "FileNotFoundError"
       /\ raised' # "None" => OUTPUT_DIR' = OUTPUT_DIR]_vars

\* C20 witness: run_aggregation has raised for a missing source file and the
\* store of the tree still holds the file of the earlier run unchanged.
C20_Witness ==
    /\ raised = "FileNotFoundError"
    /\ ~(RequiredSources \subseteq DOMAIN AGGREGATE_INPUT_DIR)
    /\ \E s \in DOMAIN OUTPUT_DIR :
        /\ OutputFile(config_key) \in DOMAIN OUTPUT_DIR[s]
        /\ Written(s) = Table(<<"store">>, <<>>)

---------------------------------------------------------------------------
(* Properties of --ting-test *)

\* C21: every run with --ting-test that completes has taken the store
\* universe from the prior output tree, whatever the config key: each store
\* directory of ./output has the file of the report under the test
\* directory; and no run with --ting-test changes a store directory of
\* ./output.
C21_TingTestReadsOutputWritesTestDir ==
    [][ting_test_mode =>
        /\ OUTPUT_DIR' = OUTPUT_DIR
        /\ raised' = "None" =>
            \A s \in DOMAIN OUTPUT_DIR :
                /\ s \in DOMAIN test_output_dir'.tree
                /\ OutputFile(config_key) \in DOMAIN test_output_dir'.tree[s]]_vars

\* The store directories of the test directory with the names of their files
TestFiles(test) == [s \in DOMAIN test.tree |-> DOMAIN test.tree[s]]

\* C30: a second run with --ting-test and the same config key, after a first
\* run that completed on the same ./output tree, leaves the test directory
\* with the store directories and files the first run left, and no store
\* directory of the test directory bears the name of the test directory.
C30_SecondTingTestRunChangesNothing ==
    [][(ting_test_mode /\ test_runs = 1 /\ raised = "None") =>
        /\ raised' = "None"
        /\ TestFiles(test_output_dir') = TestFiles(test_output_dir)
        /\ TING_TEST \notin DOMAIN test_output_dir'.tree]_vars

---------------------------------------------------------------------------
(* Properties of the months allow-lists *)

\* The period label yyyymm of a row of the interval file
PeriodLabel(row) ==
    LET Decimal(c) == c \in {"0", "1", "2", "3", "4", "5", "6", "7", "8", "9"}
        digits == SelectSeq(row.month, Decimal)
    IN  row.year \o (IF Len(digits) = 1 THEN <<"0">> \o digits ELSE digits)

\* The source directory without the rows of the interval file whose period
\* is not in the allow-list of the report
OnlyAllowedMonths(dir) ==
    LET Allowed(row) == PeriodLabel(row) \in CONFIG_MONTHS[config_key]
    IN  [f \in DOMAIN dir |->
            IF f = INTERVAL_BIND_FILE THEN SelectSeq(dir[f], Allowed)
            ELSE dir[f]]

\* C22: for the reports 23-2 and 24-1, which declare a months allow-list and
\* sum the interval file, the rows whose period label is not in the list do
\* not change the outcome: the run on the source directory has the outcomes
\* of the run on the directory without those rows.
C22_OnlyAllowedMonthsContribute ==
    config_key \in {"23-2", "24-1"} =>
        run_aggregation(config_key, AGGREGATE_INPUT_DIR, OUTPUT_DIR)
            = run_aggregation(config_key, OnlyAllowedMonths(AGGREGATE_INPUT_DIR),
                              OUTPUT_DIR)

---------------------------------------------------------------------------
(* Properties of verify_store_file_count.py *)

---------------------------------------------------------------------------
(* looker_downloader.py: LookerDownloader.download *)

MaxBatches == 4   \* batches the server is asked for in one download

\* __init__: batch_size, its default
batch_size == 50000

\* time.sleep(5) before a retry, time.sleep(3) after a saved batch
RETRY_SLEEP == 5

BATCH_SLEEP == 3

\* download before its loop (lines 320-323).  max_batches = 0 stands for
\* None: "if max_batches and ..." treats both alike.  seen is whether
\* seen_hashes holds a hash; csv_data and is_duplicate are those of the last
\* download_batch, slept the sleep that ended the last iteration.
NewDownload(max_batches, detect_duplicates) ==
    [pc |-> "loop", max_batches |-> max_batches,
     detect_duplicates |-> detect_duplicates,
     offset |-> 0, batch_num |-> 1, consecutive_issues |-> 0,
     batch_files |-> <<>>, seen |-> FALSE,
     csv_data |-> "", is_duplicate |-> FALSE, slept |-> 0]

AdvanceAfterFailedFetch(d) ==
    [d EXCEPT !.csv_data = "None", !.is_duplicate = FALSE,
              !.consecutive_issues = @ + 1,
              !.pc = IF d.consecutive_issues + 1 >= 2 THEN "done" ELSE "loop",
              !.offset = @ + batch_size, !.batch_num = @ + 1,
              !.slept = IF d.consecutive_issues + 1 >= 2 THEN 0 ELSE RETRY_SLEEP]

\* lines 345-355: download_batch returned None (HTTP status other than 200,
\* no data line, timeout, any exception)
after_failed_fetch(d) ==
    [d EXCEPT !.csv_data = "None", !.is_duplicate = FALSE,
              !.consecutive_issues = @ + 1,
              !.pc = IF d.consecutive_issues + 1 >= 2 THEN "done" ELSE "loop",
              !.slept = IF d.consecutive_issues + 1 >= 2 THEN 0 ELSE RETRY_SLEEP]

\* lines 357-385 and download_batch lines 230-232: a batch of row_count
\* rows came, a duplicate of what was seen or not
after_fetched_batch(d, row_count, is_duplicate) ==
    LET issues == IF is_duplicate THEN d.consecutive_issues + 1 ELSE 0
        fetched == [d EXCEPT !.csv_data = "text", !.is_duplicate = is_duplicate,
                             !.consecutive_issues = issues,
                             !.seen = @ \/ (d.detect_duplicates /\ ~is_duplicate),
                             !.slept = 0]
        saved == [fetched EXCEPT
                     !.batch_files = Append(@, [batch_num |-> d.batch_num,
                                                offset |-> d.offset])]
    IN  IF is_duplicate /\ issues >= 2 THEN [fetched EXCEPT !.pc = "done"]
        ELSE IF row_count < batch_size THEN [saved EXCEPT !.pc = "done"]
        ELSE [saved EXCEPT !.offset = @ + batch_size, !.batch_num = @ + 1,
                           !.slept = BATCH_SLEEP]

\* What download_batch may return for a batch that came: the server sends
\* at most limit = batch_size rows and at least one; the batch can be a
\* duplicate only with detect_duplicates and hashes seen before
RowCounts == {1, batch_size}

Duplicates(d) == IF d.detect_duplicates /\ d.seen THEN BOOLEAN ELSE {FALSE}

InitDownload ==
    /\ \E max_batches \in 0..MaxBatches, detect_duplicates \in BOOLEAN :
           downloader = NewDownload(max_batches, detect_duplicates)
    /\ input_dir = <<>>
    /\ output_dir = <<>>
    /\ todo = {}
    /\ run = 1
    /\ pc = "idle"
    /\ verdict = NotVerified
    /\ NoAggregation
    /\ NoFileCount

\* lines 326-328
ReachMaxBatches ==
    /\ downloader.pc = "loop"
    /\ downloader.max_batches # 0
    /\ downloader.batch_num > downloader.max_batches
    /\ downloader' = [downloader EXCEPT !.pc = "done"]
    /\ UNCHANGED <<fanout_vars, aggregate_vars, count_vars>>

\* A pass of the loop in which download_batch returns None
FetchFails ==
    /\ downloader.pc = "loop"
    /\ ~(downloader.max_batches # 0
         /\ downloader.batch_num > downloader.max_batches)
    /\ downloader.batch_num <= MaxBatches
    /\ downloader' = after_failed_fetch(downloader)
    /\ UNCHANGED <<fanout_vars, aggregate_vars, count_vars>>

\* A pass of the loop in which download_batch returns a batch
FetchBatch ==
    /\ downloader.pc = "loop"
    /\ ~(downloader.max_batches # 0
         /\ downloader.batch_num > downloader.max_batches)
    /\ downloader.batch_num <= MaxBatches
    /\ \E row_count \in RowCounts, is_duplicate \in Duplicates(downloader) :
           downloader' = after_fetched_batch(downloader, row_count, is_duplicate)
    /\ UNCHANGED <<fanout_vars, aggregate_vars, count_vars>>

DownloadNext == ReachMaxBatches \/ FetchFails \/ FetchBatch

SpecDownload == InitDownload /\ [][DownloadNext]_vars

\* C24: in a pass of the download loop, a failed fetch after which the loop
\* goes on leaves offset and batch number as they were and sleeps the fixed
\* 5 seconds; offset and batch number change only together with the saving
\* of the batch of the old number and offset; the counter of consecutive
\* issues never exceeds 2 and the loop has stopped when it is 2; and the
\* counter returns to 0 only in a pass that saved a batch that was no
\* duplicate.
C24_RetryAtSameOffsetStopAtTwoIssues ==
    [][downloader.pc = "loop" =>
        LET d == downloader
            e == downloader'
        IN  /\ (e.csv_data = "None" /\ e.pc = "loop") =>
                /\ e.offset = d.offset
                /\ e.batch_num = d.batch_num
                /\ e.slept = RETRY_SLEEP
            /\ (e.offset # d.offset \/ e.batch_num # d.batch_num) =>
                /\ e.batch_files = Append(d.batch_files,
                                          [batch_num |-> d.batch_num,
                                           offset |-> d.offset])
                /\ e.offset = d.offset + batch_size
                /\ e.batch_num = d.batch_num + 1
            /\ e.consecutive_issues <= 2
            /\ e.consecutive_issues >= 2 => e.pc = "done"
            /\ (d.consecutive_issues # 0 /\ e.consecutive_issues = 0) =>
                /\ e.csv_data = "text"
                /\ ~e.is_duplicate
                /\ Len(e.batch_files) = Len(d.batch_files) + 1]_vars

\* C24 witness: after the first batch was saved, the fetch of the second has
\* failed once and the loop is about to retry it at the same offset.
C24_Witness ==
    /\ downloader.pc = "loop"
    /\ downloader.csv_data = "None"
    /\ downloader.consecutive_issues = 1
    /\ downloader.slept = RETRY_SLEEP
    /\ downloader.batch_num = 2
    /\ downloader.offset = batch_size
    /\ Len(downloader.batch_files) = 1

---------------------------------------------------------------------------
(* Properties of the partitioner: order, placement and frame *)

\* The orders in which os.scandir may yield the names
RECURSIVE Enumerations(_)
Enumerations(names) ==
    IF names = {} THEN {<<>>}
    ELSE UNION {{<<n>> \o rest : rest \in Enumerations(names \ {n})} : n \in names}

\* The tree main leaves when it processes the files in the order, from tree
RECURSIVE FanOutInOrder(_, _)
FanOutInOrder(order, tree) ==
    IF order = <<>> THEN tree
    ELSE FanOutInOrder(Tail(order),
                       split_csv_file(input_dir[Head(order)], Head(order), tree))

\* C25: the tree the partitioner has left after one run from an empty tree
\* is the tree that every order of enumeration of the input files leads to.
C25_FinalTreeIndependentOfFileOrder ==
    (pc = "idle" /\ run = 1) =>
        \A order \in Enumerations(iter_csv_files(input_dir)) :
            output_dir = FanOutInOrder(order, <<>>)

\* The places of the data rows of the input file that pass the discard
\* rules, with the store each belongs to.
AcceptedPlaces(name) ==
    LET idx == store_idx(input_dir[name])
        rows == DataRows(input_dir[name])
    IN  {i \in 1..Len(rows) : IsRouted(rows[i], idx)}

\* C26: in the first run, on an empty output tree, for every processed
\* input file with a recognized header: each accepted data row is in the
\* file output/{normalized id}/{input file name}, and the data rows of each
\* per-store file of that name are exactly the accepted rows of that store,
\* cell for cell, once each and in input order; so no discarded or preamble
\* row is a data row of any file.
C26_AcceptedRowsOnceVerbatimInOrder ==
    (run = 1) =>
        \A n \in CsvInputs : (Processed(n) /\ HasHeader(n)) =>
            LET idx == store_idx(input_dir[n])
                rows == DataRows(input_dir[n])
            IN  /\ \A i \in AcceptedPlaces(n) :
                       /\ Exists(output_dir, StoreIdOf(rows[i], idx), n)
                       /\ InSeq(rows[i],
                                RowsBelowBlock(StoreIdOf(rows[i], idx), n))
                /\ \A s \in DOMAIN output_dir :
                       Exists(output_dir, s, n)
                           => RowsBelowBlock(s, n) = RowsFor(n, s)

\* Reached: a processed input file has two different accepted rows of one
\* store, the second with an identifier cell that is not the normalized
\* identifier; the store's file holds the two rows in input order.
C26_Witness ==
    /\ run = 1
    /\ \E n \in CsvInputs :
           /\ Processed(n) /\ HasHeader(n)
           /\ LET idx == store_idx(input_dir[n])
                  rows == DataRows(input_dir[n])
              IN  \E i, j \in AcceptedPlaces(n) :
                         /\ i < j
                         /\ rows[i] # rows[j]
                         /\ StoreIdOf(rows[i], idx) = StoreIdOf(rows[j], idx)
                         /\ rows[j][idx] # StoreIdOf(rows[j], idx)
                         /\ RowsBelowBlock(StoreIdOf(rows[i], idx), n)
                                = <<rows[i], rows[j]>>

---------------------------------------------------------------------------
(* The partitioner started on an output tree that is not empty *)

MaxNewRows == 1   \* data rows in the input directory of a run on a tree

\* What a file of the tree may hold before the run
PriorFilePool ==
    { << <<ZH_STORE_NO, VALUE>>, << <<"1">>, VALUE >> >>,
      << <<SHOP_ID_LOWER, VALUE>> >> }

\* Output trees left by earlier work: the store directory 1 and the
\* directory ting-test (the default --output-dir of the aggregator's test
\* mode lies under ./output), or fewer
PriorTrees ==
    UNION {[ss -> FilesOver({A_CSV, B_CSV}, PriorFilePool)] :
              ss \in SUBSET {<<"1">>, TING_TEST}}

NewInputDirs ==
    UNION { UNION { {InputDir(a, b) : a \in InputFiles(ka), b \in InputFiles(kb)} :
                    kb \in 0..(MaxNewRows - ka) } :
            ka \in 0..MaxNewRows }

InitRefill ==
    /\ input_dir \in NewInputDirs
    /\ output_dir \in PriorTrees
    /\ todo = iter_csv_files(input_dir)
    /\ run = 1
    /\ pc = "fanout"
    /\ verdict = NotVerified
    /\ NoAggregation
    /\ NoTools

SpecRefill == InitRefill /\ [][SplitNext]_vars

IsPrefix(old, new) ==
    Len(old) <= Len(new) /\ SubSeq(new, 1, Len(old)) = old

\* C27: a call of split_csv_file for the input file F leaves every
\* directory and file of the tree in place; what a file held before is a
\* prefix of what it holds afterwards; a file with another name than F is
\* unchanged, and so is a file named F of a directory that gets no row of F
\* (the header-only fill does not touch an existing file).
C27_ExistingContentIsKeptAsPrefix ==
    [][\A F \in CsvInputs :
          (pc = "fanout" /\ F \in todo /\ todo' = todo \ {F})
          => \A s \in DOMAIN output_dir :
                /\ s \in DOMAIN output_dir'
                /\ \A n \in DOMAIN output_dir[s] :
                      /\ n \in DOMAIN output_dir'[s]
                      /\ IsPrefix(output_dir[s][n], output_dir'[s][n])
                      /\ (n # F => output_dir'[s][n] = output_dir[s][n])
                      /\ ((~HasHeader(F) \/ s \notin RoutedStores(F))
                             => output_dir'[s][n] = output_dir[s][n])]_vars

\* Reached: the input file F is processed; the file F of one directory is
\* what it held before the run followed by a row of F, without a second
\* header; the file F of another directory, which has no row of F, is what
\* it held before the run.
C27_Witness ==
    \E F \in CsvInputs :
        /\ Processed(F) /\ HasHeader(F)
        /\ \E s, t \in DOMAIN output_dir :
              /\ s \in RoutedStores(F)
              /\ t \notin RoutedStores(F)
              /\ Exists(output_dir, s, F) /\ Exists(output_dir, t, F)
              /\ \E old \in PriorFilePool :
                     output_dir[s][F] = old \o RowsFor(F, s)
              /\ output_dir[t][F] \in PriorFilePool

\* C28: a call of split_csv_file changes nothing inside a directory of the
\* output tree whose name is not a digit string, and the directories it
\* creates have digit strings as names.
C28_NoFileIntoNonDigitDirectory ==
    [][/\ \A d \in DOMAIN output_dir :
              ~IsDigit(d) => /\ d \in DOMAIN output_dir'
                             /\ output_dir'[d] = output_dir[d]
       /\ \A d \in DOMAIN output_dir' \ DOMAIN output_dir : IsDigit(d)]_vars

---------------------------------------------------------------------------
(* Properties of the ratio reports: one header per run *)

\* C29: after a completed run of a per-store ratio report, the files the
\* run has written for the stores all have the same columns in the same
\* order, whether a store has rows or not.
C29_RatioReportFilesShareOneHeader ==
    (raised = "None" /\ config_key \in DOMAIN RATIO_CONFIGS) =>
        \A s, t \in DOMAIN OUTPUT_DIR :
            Written(s).columns = Written(t).columns

====
